---- MODULE Spec2Model ----
(***************************************************************************)
(* Stats-card renderer (src/src/renderer.py): the coordinate scaler, the   *)
(* linear composition pass of render, the language filter, the vertical    *)
(* language bar with its legend and colors, the greedy and the balanced    *)
(* text wrap, and the font size that fits the blurb.                       *)
(*                                                                         *)
(* Numbers.  A scale is a rational q / ScaleDen; the products base * scale *)
(* are exact rationals, rounded as Python's round does (half to even).     *)
(* A percentage is an integer number of tenths of a percent; the inputs    *)
(* are whole percents, which doubles hold exactly.                         *)
(* Text.  A string is a sequence of one-character strings, so that         *)
(* str.strip, str.split, str.casefold and int(.., 16) are computed and     *)
(* not assumed.  A font is its pixel size.                                 *)
(***************************************************************************)
EXTENDS Integers, Sequences, FiniteSets, TLC

VARIABLES
    rstate,     \* "none": no renderer yet, "ready": __init__ returned, "ctor_raised"
    scaleArg,   \* the scale argument of the last __init__ call
    scale,      \* self.scale
    dims,       \* the scaled dimensions of __init__ (CARD_WIDTH, ...)
    built,      \* history: (scale, CARD_WIDTH, CARD_HEIGHT) of every renderer built
    nbuilt,     \* number of __init__ calls made
    pc,         \* position of the render call in progress
    args,       \* the arguments of the render call in progress
    steps,      \* the draw steps the render call has executed, in order
    canvas,     \* size of the image render created, <<0, 0>> before
    panel,      \* what _draw_stats_section put on the card
    files,      \* number of image.save calls that wrote the file in this render
    error,      \* the exception the call raised to its caller, "none" if none
    renders,    \* number of render calls made on this renderer
    call,       \* a helper method called on its own: its arguments and result
    fetcher     \* the PokemonFetcher: its sprite cache and the requests it sent

vars == <<rstate, scaleArg, scale, dims, built, nbuilt, pc, args, steps,
          canvas, panel, files, error, renders, call, fetcher>>

---------------------------------------------------------------------------
(* Bounds of the model *)

ScaleDen == 32
MaxRenderers == 2
MaxRenders == 2
MaxLangs == 6
MaxBarH == 7
MaxBarLangs == 5
MaxText == 7
MaxWrapWidth == 5
MaxParas == 2

---------------------------------------------------------------------------
(* Base (1x) constants of StatsCardRenderer *)

BASE_CARD_WIDTH == 800
BASE_CARD_HEIGHT == 400
BASE_PADDING == 30
BASE_CORNER_RADIUS == 20
BASE_POKEMON_SPRITE_SIZE == 55
BASE_POKEMON_SPACING == 5
BASE_STATS_START_X == 320
BASE_LANGUAGE_BAR_WIDTH == 11
BASE_LANGUAGE_BAR_HEIGHT == 201

---------------------------------------------------------------------------
(* Floats: float(scale), round, and the scaler _s *)

Fin(q) == [kind |-> "fin", q |-> q]
NaN == [kind |-> "nan", q |-> 0]
Inf == [kind |-> "inf", q |-> 0]

\* the default scale 2.0, also the fallback of __init__
DefaultScale == Fin(2 * ScaleDen)

\* Arguments a caller can pass as scale: None, a string float() cannot
\* parse, a string it parses ("1.5", "nan"), and floats (finite, nan, inf).
ScaleNums == {-ScaleDen, -1, 0, 1, 2, 3, ScaleDen \div 2, ScaleDen,
              ScaleDen + (ScaleDen \div 2), 2 * ScaleDen, 3 * ScaleDen, 4 * ScaleDen}
ScaleArgs ==
    {[type |-> "None", val |-> NaN], [type |-> "str", val |-> NaN],
     [type |-> "numstr", val |-> Fin(3 * ScaleDen)], [type |-> "numstr", val |-> NaN],
     [type |-> "float", val |-> NaN], [type |-> "float", val |-> Inf]}
    \cup {[type |-> "float", val |-> Fin(q)] : q \in ScaleNums}

\* float(x): raises TypeError for None, ValueError for an unparsable string
PyFloat(x) ==
    CASE x.type = "None" -> [ok |-> FALSE, val |-> NaN]
      [] x.type = "str" -> [ok |-> FALSE, val |-> NaN]
      [] OTHER -> [ok |-> TRUE, val |-> x.val]

\* x <= 0 on floats: every comparison with nan is False
LeqZero(x) ==
    CASE x.kind = "fin" -> x.q <= 0
      [] x.kind = "nan" -> FALSE
      [] OTHER -> FALSE

\* round(n / d) for d > 0, ties to the even integer
PyRound(n, d) ==
    LET fl == n \div d
        r2 == 2 * (n % d)
    IN  IF r2 < d THEN fl
        ELSE IF r2 > d THEN fl + 1
        ELSE IF fl % 2 = 0 THEN fl ELSE fl + 1

\* self._s(value) for a finite self.scale
ScaleTruncate(value, sc) == (value * sc.q) \div ScaleDen
_s(value, sc) == PyRound(value * sc.q, ScaleDen)

\* int(round(...)) raises ValueError on nan and OverflowError on infinity
ScaleError(sc) ==
    CASE sc.kind = "nan" -> "ValueError"
      [] sc.kind = "inf" -> "OverflowError"
      [] OTHER -> "none"

\* self.scale after lines 69-74
CoerceScale(x) ==
    LET f == PyFloat(x)
        s1 == IF f.ok THEN f.val ELSE DefaultScale
    IN  IF LeqZero(s1) THEN DefaultScale ELSE s1

\* the scaled dimensions of lines 77-87
UnscaledDims(sc) ==
    [CARD_WIDTH |-> BASE_CARD_WIDTH,
     CARD_HEIGHT |-> BASE_CARD_HEIGHT,
     PADDING |-> BASE_PADDING,
     CORNER_RADIUS |-> BASE_CORNER_RADIUS,
     POKEMON_SPRITE_SIZE |-> BASE_POKEMON_SPRITE_SIZE,
     POKEMON_SPACING |-> BASE_POKEMON_SPACING,
     STATS_START_X |-> BASE_STATS_START_X,
     LANGUAGE_BAR_WIDTH |-> BASE_LANGUAGE_BAR_WIDTH,
     LANGUAGE_BAR_HEIGHT |-> BASE_LANGUAGE_BAR_HEIGHT]
ScaledDims(sc) ==
    [CARD_WIDTH |-> _s(BASE_CARD_WIDTH, sc),
     CARD_HEIGHT |-> _s(BASE_CARD_HEIGHT, sc),
     PADDING |-> _s(BASE_PADDING, sc),
     CORNER_RADIUS |-> _s(BASE_CORNER_RADIUS, sc),
     POKEMON_SPRITE_SIZE |-> _s(BASE_POKEMON_SPRITE_SIZE, sc),
     POKEMON_SPACING |-> _s(BASE_POKEMON_SPACING, sc),
     STATS_START_X |-> _s(BASE_STATS_START_X, sc),
     LANGUAGE_BAR_WIDTH |-> _s(BASE_LANGUAGE_BAR_WIDTH, sc),
     LANGUAGE_BAR_HEIGHT |-> _s(BASE_LANGUAGE_BAR_HEIGHT, sc)]

NoDims ==
    [CARD_WIDTH |-> 0, CARD_HEIGHT |-> 0, PADDING |-> 0, CORNER_RADIUS |-> 0,
     POKEMON_SPRITE_SIZE |-> 0, POKEMON_SPACING |-> 0, STATS_START_X |-> 0,
     LANGUAGE_BAR_WIDTH |-> 0, LANGUAGE_BAR_HEIGHT |-> 0]

---------------------------------------------------------------------------
(* Strings: str.strip and str.casefold *)

Whitespace == {" "}

CaseFoldChar(c) ==
    CASE c = "G" -> "g"
      [] c = "O" -> "o"
      [] c = "P" -> "p"
      [] OTHER -> c

RECURSIVE LStrip(_)
LStrip(str) ==
    IF str # <<>> /\ Head(str) \in Whitespace THEN LStrip(Tail(str)) ELSE str

RECURSIVE RStrip(_)
RStrip(str) ==
    IF str # <<>> /\ str[Len(str)] \in Whitespace
    THEN RStrip(SubSeq(str, 1, Len(str) - 1))
    ELSE str

Strip(str) == RStrip(LStrip(str))

CaseFold(str) == [i \in DOMAIN str |-> CaseFoldChar(str[i])]

\* (name or "").strip().casefold()
_normalize_language_name(name) == CaseFold(Strip(name))

---------------------------------------------------------------------------
(* Language filtering *)

\* an optional argument: None, or a value
None == [none |-> TRUE, v |-> <<>>]
Some(x) == [none |-> FALSE, v |-> x]

\* x or []
OrEmpty(o) == IF o.none THEN <<>> ELSE o.v

\* {normalize(x) for x in excluded if x}: falsy (empty) entries are dropped
ExcludedSet(excluded) ==
    {_normalize_language_name(excluded[i]) :
        i \in {j \in DOMAIN excluded : excluded[j] # <<>>}}

\* a filter that removes only the first matching entry
RECURSIVE RemoveFirst(_, _)
RemoveFirst(languages, set) ==
    IF languages = <<>> THEN <<>>
    ELSE IF _normalize_language_name(Head(languages)[1]) \in set
         THEN Tail(languages)
         ELSE <<Head(languages)>> \o RemoveFirst(Tail(languages), set)

FilterFirstMatchOnly(languages, excluded) ==
    RemoveFirst(languages, ExcludedSet(excluded))

\* a filter that compares the raw language name with the normalized set
FilterRawName(languages, excluded) ==
    LET excluded_set == ExcludedSet(excluded)
    IN  IF excluded_set = {} THEN languages
        ELSE SelectSeq(languages, LAMBDA e : CaseFold(e[1]) \notin excluded_set)

_filter_languages(languages, excluded) ==
    LET excluded_set == ExcludedSet(excluded)
    IN  IF excluded_set = {} THEN languages
        ELSE SelectSeq(languages,
                LAMBDA e : _normalize_language_name(e[1]) \notin excluded_set)

\* lines 821-824 of _draw_stats_section: the languages the section works on
SectionLanguages(stats) ==
    LET languages == OrEmpty(stats.languages)
        excluded_languages == OrEmpty(stats.excluded_languages)
    IN  IF excluded_languages # <<>>
        THEN _filter_languages(languages, excluded_languages)
        ELSE languages

---------------------------------------------------------------------------
(* Language names and colors *)

Go == <<"G", "o">>
GoLowerSpaced == <<" ", "g", "o">>
GoUpperSpaced == <<"G", "O", " ">>
Python == <<"P", "y", "t", "h", "o", "n">>
Blank == <<" ">>
Empty == <<>>
GoLower == <<"g", "o">>

HexDigits ==
    <<"0", "1", "2", "3", "4", "5", "6", "7", "8", "9", "a", "b", "c", "d", "e", "f">>
HexUpper == <<"A", "B", "C", "D", "E", "F">>

\* int(c, 16) of one digit, either case
HexValue(c) ==
    IF \E k \in DOMAIN HexUpper : HexUpper[k] = c
    THEN 9 + (CHOOSE k \in DOMAIN HexUpper : HexUpper[k] = c)
    ELSE (CHOOSE k \in DOMAIN HexDigits : HexDigits[k] = c) - 1

\* hex_color.lstrip("#"), then the three two-digit channels
hex_to_rgb(hex_color) ==
    LET RECURSIVE LStripHash(_)
        LStripHash(str) ==
            IF str # <<>> /\ Head(str) = "#" THEN LStripHash(Tail(str)) ELSE str
        digits == LStripHash(hex_color)
    IN  [c \in 1..3 |-> 16 * HexValue(digits[2 * c - 1]) + HexValue(digits[2 * c])]

\* alpha has its default, 255
hex_to_rgba(hex_color) == hex_to_rgb(hex_color) \o <<255>>

FALLBACK_LANGUAGE_COLORS ==
    << <<"#", "e", "0", "6", "c", "7", "5">>, <<"#", "9", "8", "c", "3", "7", "9">>,
       <<"#", "e", "5", "c", "0", "7", "b">>, <<"#", "6", "1", "a", "f", "e", "f">>,
       <<"#", "c", "6", "7", "8", "d", "d">>, <<"#", "5", "6", "b", "6", "c", "2">>,
       <<"#", "b", "e", "5", "0", "4", "6">>, <<"#", "d", "1", "9", "a", "6", "6">>,
       <<"#", "a", "b", "b", "2", "b", "f">>, <<"#", "5", "c", "6", "3", "7", "0">> >>

\* the language -> color table of the language_colors module: the entries
\* of the two languages of the scenario
GITHUB_LANGUAGE_COLORS ==
    [lang \in {Python, Go} |->
        IF lang = Python THEN <<"#", "3", "5", "7", "2", "A", "5">>
        ELSE <<"#", "0", "0", "A", "D", "D", "8">>]

\* str.lower on the letters of the names used here
Lower(str) == [i \in DOMAIN str |-> CaseFoldChar(str[i])]

\* lines 17-30
FallbackColorZero(language, fallback_index) ==
    IF language \in DOMAIN GITHUB_LANGUAGE_COLORS
    THEN GITHUB_LANGUAGE_COLORS[language]
    ELSE IF \E lang \in DOMAIN GITHUB_LANGUAGE_COLORS : Lower(lang) = Lower(language)
    THEN GITHUB_LANGUAGE_COLORS[
             CHOOSE lang \in DOMAIN GITHUB_LANGUAGE_COLORS : Lower(lang) = Lower(language)]
    ELSE FALLBACK_LANGUAGE_COLORS[1]
get_language_color(language, fallback_index) ==
    IF language \in DOMAIN GITHUB_LANGUAGE_COLORS
    THEN GITHUB_LANGUAGE_COLORS[language]
    ELSE IF \E lang \in DOMAIN GITHUB_LANGUAGE_COLORS : Lower(lang) = Lower(language)
    THEN GITHUB_LANGUAGE_COLORS[
             CHOOSE lang \in DOMAIN GITHUB_LANGUAGE_COLORS : Lower(lang) = Lower(language)]
    ELSE FALLBACK_LANGUAGE_COLORS[(fallback_index % Len(FALLBACK_LANGUAGE_COLORS)) + 1]

---------------------------------------------------------------------------
(* The vertical language bar and its legend *)

Min(a, b) == IF a <= b THEN a ELSE b

RECURSIVE SumPct(_)
SumPct(langs) == IF langs = <<>> THEN 0 ELSE Head(langs)[2] + SumPct(Tail(langs))

\* languages[:5]
FirstSix(languages) == SubSeq(languages, 1, Min(6, Len(languages)))
VisibleLanguages(languages) == SubSeq(languages, 1, Min(5, Len(languages)))

\* lines 873-879: the two early returns before the fill is computed
NothingToFillNoZeroCheck(visible_languages) == visible_languages = <<>>
NothingToFill(visible_languages) ==
    visible_languages = <<>> \/ SumPct(visible_languages) = 0

\* line 893, int((percentage / total_pct) * h): the product of doubles cut
\* to an integer.  The quotient and the product are each rounded to a
\* double, so a product whose exact value is an integer k can come out just
\* under k and be cut to k - 1.  FloatUnder lists the (percentage, total,
\* h) among the inputs of this model where it does:
\* (1.0 / 49.0) * 49 is 0.9999999999999999.
FloatUnder == {<<10, 490, 49>>}

RoundQuotient(percentage, total_pct, h) == PyRound(percentage * h, total_pct)
TruncQuotient(percentage, total_pct, h) ==
    LET exact == (percentage * h) \div total_pct
    IN  IF <<percentage, total_pct, h>> \in FloatUnder THEN exact - 1 ELSE exact

\* lines 896-899, equal mode: h // num_languages, and what is left for the
\* last language (i counts from 1)
EqualShareOnly(i, num_languages, h, current_y) == h \div num_languages
EqualShare(i, num_languages, h, current_y) ==
    IF i = num_languages THEN h - current_y ELSE h \div num_languages

\* lines 901-902: if segment_height < 1: continue
SkipNone(segment_height) == FALSE
SkipSegment(segment_height) == segment_height < 1

\* line 906: current_y += segment_height
SameY(current_y, segment_height) == current_y
NextY(current_y, segment_height) == current_y + segment_height

\* lines 890-906: the segments (start row, end row, index, entry and color
\* of the language)
RECURSIVE Segments(_, _, _, _, _, _)
Segments(visible, i, current_y, total_pct, h, scale_bars) ==
    IF i > Len(visible) THEN <<>>
    ELSE LET segment_height ==
                 IF scale_bars
                 THEN TruncQuotient(visible[i][2], total_pct, h)
                 ELSE EqualShare(i, Len(visible), h, current_y)
         IN  IF SkipSegment(segment_height)
             THEN Segments(visible, i + 1, current_y, total_pct, h, scale_bars)
             ELSE <<[start |-> current_y, end |-> current_y + segment_height,
                     lang |-> i - 1, entry |-> visible[i],
                     color |-> hex_to_rgba(get_language_color(visible[i][1], i - 1))]>>
                  \o Segments(visible, i + 1, NextY(current_y, segment_height),
                              total_pct, h, scale_bars)

NoBar ==
    [called |-> FALSE, background |-> FALSE, segments |-> <<>>,
     pasted |-> FALSE, border |-> FALSE, error |-> "none"]

\* _draw_vertical_language_bar: what it puts on the card
_draw_vertical_language_bar(h, languages, scale_bars, use_gradient, show_border) ==
    LET visible_languages == VisibleLanguages(languages)
        total_pct == SumPct(visible_languages)
        background_only == [NoBar EXCEPT !.called = TRUE, !.background = TRUE]
    IN  IF NothingToFill(visible_languages) THEN background_only
        ELSE IF scale_bars /\ total_pct = 0
        THEN [background_only EXCEPT !.error = "ZeroDivisionError"]
        ELSE LET segments == Segments(visible_languages, 1, 0, total_pct, h, scale_bars)
             IN  IF segments = <<>> THEN background_only
                 ELSE [background_only EXCEPT !.segments = segments,
                                              !.pasted = TRUE,
                                              !.border = show_border]

\* _blend_colors, lines 979-992, for the factor num / den: every channel is
\* int(c1 + (c2 - c1) * factor), a value between the two channels. The
\* doubles give the exact quotient rounded down for the colors and factors
\* of the bars filled here.
BlendFirst(color1, color2, num, den) == color1
_blend_colors(color1, color2, num, den) ==
    LET clamped == IF num < 0 THEN 0 ELSE IF num > den THEN den ELSE num
    IN  [c \in 1..4 |->
            (color1[c] * den + (color2[c] - color1[c]) * clamped) \div den]

\* line 926: the row is in the band after the boundary with the previous segment
InPrevBandOrAtEnd(dist_from_prev, gradient_size) == dist_from_prev <= gradient_size
InPrevBand(dist_from_prev, gradient_size) == dist_from_prev < gradient_size

\* line 937: the row is in the band before the boundary with the next segment
InNextBand(dist_to_next, gradient_size) == dist_to_next <= gradient_size

\* lines 918-945: the color of a row of segment seg_idx (counted from 1),
\* with the blend made and its factor as (numerator, denominator)
PrevBlendNever(segments, seg_idx, row_y, gradient_size) == FALSE
PrevBlend(segments, seg_idx, row_y, gradient_size) ==
    /\ seg_idx > 1
    /\ InPrevBand(row_y - segments[seg_idx].start, gradient_size)

SegmentRow(segments, seg_idx, row_y, gradient_size) ==
    LET seg == segments[seg_idx]
        dist_from_prev == row_y - seg.start
        solid == [blend |-> "solid", factor |-> <<0, 1>>, color |-> seg.color,
                  seg |-> seg_idx, error |-> "none"]
        failed == [solid EXCEPT !.error = "ZeroDivisionError"]
    IN  IF PrevBlend(segments, seg_idx, row_y, gradient_size)
        THEN IF gradient_size = 0 THEN failed
             ELSE [solid EXCEPT
                      !.blend = "from_prev",
                      !.factor = <<dist_from_prev, gradient_size>>,
                      !.color = _blend_colors(segments[seg_idx - 1].color, seg.color,
                                              dist_from_prev, gradient_size)]
        ELSE IF /\ seg_idx < Len(segments)
                /\ InNextBand(segments[seg_idx + 1].start - row_y, gradient_size)
        THEN IF gradient_size = 0 THEN failed
             ELSE LET dist_to_next == segments[seg_idx + 1].start - row_y
                  IN  [solid EXCEPT
                          !.blend = "to_next",
                          !.factor = <<gradient_size - dist_to_next, gradient_size>>,
                          !.color = _blend_colors(seg.color, segments[seg_idx + 1].color,
                                                  gradient_size - dist_to_next,
                                                  gradient_size)]
        ELSE solid

\* lines 915-952: the color of row row_y in gradient mode
GradientRow(segments, row_y, gradient_size) ==
    LET holding == {k \in DOMAIN segments :
                       segments[k].start <= row_y /\ row_y < segments[k].end}
    IN  IF holding = {}
        THEN [blend |-> "fallback", factor |-> <<0, 1>>,
              color |-> segments[Len(segments)].color, seg |-> 0, error |-> "none"]
        ELSE SegmentRow(segments, CHOOSE k \in holding : \A o \in holding : k <= o,
                        row_y, gradient_size)

\* lines 953-956: the rectangles of block mode hold both of their corner
\* rows and are painted in the order of the segments, on a clear image
BlockRow(segments, row_y) ==
    LET painting == {k \in DOMAIN segments :
                        segments[k].start <= row_y /\ row_y <= segments[k].end}
    IN  IF painting = {}
        THEN [blend |-> "none", factor |-> <<0, 1>>, color |-> <<0, 0, 0, 0>>,
              seg |-> 0, error |-> "none"]
        ELSE LET top == CHOOSE k \in painting : \A o \in painting : k >= o
             IN  [blend |-> "solid", factor |-> <<0, 1>>, color |-> segments[top].color,
                  seg |-> top, error |-> "none"]

\* lines 911-956: the rows of the off-screen image of the bar, from row 0,
\* up to the first row that raises
RECURSIVE RowsFrom(_, _, _, _, _)
RowsFrom(segments, row_y, h, gradient_size, use_gradient) ==
    IF row_y >= h THEN <<>>
    ELSE LET row == IF use_gradient THEN GradientRow(segments, row_y, gradient_size)
                    ELSE BlockRow(segments, row_y)
         IN  IF row.error # "none" THEN <<row>>
             ELSE <<row>> \o RowsFrom(segments, row_y + 1, h, gradient_size, use_gradient)

\* _draw_vertical_language_legend: one row (index, entry) per visible language
LegendOfSegments(languages) ==
    LET filled == SelectSeq(VisibleLanguages(languages), LAMBDA entry : entry[2] > 0)
    IN  [i \in DOMAIN filled |->
            [lang |-> i - 1, entry |-> filled[i],
             color |-> hex_to_rgba(get_language_color(filled[i][1], i - 1))]]
_draw_vertical_language_legend(languages) ==
    LET visible_languages == VisibleLanguages(languages)
    IN  [i \in DOMAIN visible_languages |->
            [lang |-> i - 1, entry |-> visible_languages[i],
             color |-> hex_to_rgba(get_language_color(visible_languages[i][1], i - 1))]]

---------------------------------------------------------------------------
(* _draw_stats_section *)

\* the rows of the stats panel drawn before a value fails to format:
\* f"{value:,}" raises TypeError on None
RECURSIVE StatsRows(_)
StatsRows(values) ==
    IF values = <<>> \/ Head(values).none THEN <<>>
    ELSE <<Head(values).v>> \o StatsRows(Tail(values))

\* line 826: if languages
HasLanguagesAlways(languages) == TRUE
HasLanguages(languages) == languages # <<>>

NoPanel ==
    [stats_label |-> FALSE, rows |-> <<>>, languages |-> <<>>,
     languages_label |-> FALSE, bar |-> NoBar, legend |-> <<>>, error |-> "none"]

_draw_stats_section(stats, sc) ==
    LET rows == StatsRows(stats.values)
        bar_h == _s(164, sc)
        languages == SectionLanguages(stats)
        started == [NoPanel EXCEPT !.stats_label = TRUE, !.rows = rows]
    IN  IF Len(rows) < Len(stats.values)
        THEN [started EXCEPT !.error = "TypeError"]
        ELSE IF ~HasLanguages(languages)
        THEN [started EXCEPT !.languages = languages]
        ELSE LET bar == _draw_vertical_language_bar(bar_h, languages,
                            stats.scale_language_bars, stats.language_gradient,
                            stats.language_bar_border)
             IN  IF bar.error # "none"
                 THEN [started EXCEPT !.languages = languages,
                                      !.languages_label = TRUE,
                                      !.bar = bar, !.error = bar.error]
                 ELSE [started EXCEPT !.languages = languages,
                                      !.languages_label = TRUE,
                                      !.bar = bar,
                                      !.legend = _draw_vertical_language_legend(languages)]

---------------------------------------------------------------------------
(* Text layout: measuring, greedy wrap, balanced wrap *)

\* str.split(): the maximal runs of non-whitespace characters, in order
RECURSIVE Split(_)
Split(str) ==
    IF str = <<>> THEN <<>>
    ELSE IF Head(str) \in Whitespace THEN Split(Tail(str))
    ELSE LET stops == {k \in DOMAIN str : str[k] \in Whitespace}
             n == IF stops = {} THEN Len(str)
                  ELSE (CHOOSE k \in stops : \A m \in stops : k <= m) - 1
         IN  <<SubSeq(str, 1, n)>> \o Split(SubSeq(str, n + 1, Len(str)))

\* " ".join(words)
RECURSIVE Join(_)
Join(words) ==
    IF words = <<>> THEN <<>>
    ELSE IF Len(words) = 1 THEN words[1]
    ELSE words[1] \o <<" ">> \o Join(Tail(words))

\* draw.textbbox((0, 0), text, font=font) of a font of the given pixel
\* size: the glyph "W" is as wide and as high as the font size, the glyph
\* "a" half as wide and three quarters as high, a space is half as wide
GlyphWidth(c, font) == IF c = "W" THEN font ELSE font \div 2
GlyphHeight(c, font) ==
    IF c = "W" THEN font ELSE IF c \in Whitespace THEN 0 ELSE (3 * font) \div 4

RECURSIVE TextWidth(_, _)
TextWidth(str, font) ==
    IF str = <<>> THEN 0 ELSE GlyphWidth(Head(str), font) + TextWidth(Tail(str), font)

RECURSIVE TextHeight(_, _)
TextHeight(str, font) ==
    IF str = <<>> THEN 0
    ELSE LET rest == TextHeight(Tail(str), font)
             first == GlyphHeight(Head(str), font)
         IN  IF first >= rest THEN first ELSE rest

\* line 464: the candidate line is taken when it is not wider than the box
FitsAlways(width, max_width) == TRUE
Fits(width, max_width) == width <= max_width

\* lines 468-475: the candidate does not fit; the lines and the line being
\* filled after the word w is placed
OverflowDropsWord(lines, current, w) ==
    IF current # <<>>
    THEN [lines |-> Append(lines, current), current |-> <<>>]
    ELSE [lines |-> Append(lines, w), current |-> <<>>]
Overflow(lines, current, w) ==
    IF current # <<>>
    THEN [lines |-> Append(lines, current), current |-> w]
    ELSE [lines |-> Append(lines, w), current |-> <<>>]

\* lines 461-478: the loop over the words, with the lines so far and
\* the line being filled
RECURSIVE GreedyLoop(_, _, _, _, _)
GreedyLoop(words, lines, current, font, max_width) ==
    IF words = <<>>
    THEN IF current # <<>> THEN Append(lines, current) ELSE lines
    ELSE LET w == Head(words)
             candidate == Strip(current \o <<" ">> \o w)
             placed == Overflow(lines, current, w)
         IN  IF Fits(TextWidth(candidate, font), max_width)
             THEN GreedyLoop(Tail(words), lines, candidate, font, max_width)
             ELSE GreedyLoop(Tail(words), placed.lines, placed.current, font, max_width)

\* lines 446-480
_wrap_text_to_width(text, font, max_width) ==
    LET stripped == Strip(text)
    IN  IF stripped = <<>> THEN <<>>
        ELSE GreedyLoop(Split(stripped), <<>>, <<>>, font, max_width)

\* line 515: 10**18 in the source, above every penalty a text can have; it
\* is 10^9 here, above every penalty of this model, for TLC's 32-bit integers
inf == 1000000000

\* lines 507-513: the width of words[i:j] joined by spaces (i, j from 0)
line_width(words, i, j, font) == TextWidth(Join(SubSeq(words, i + 1, j)), font)

\* line 524: a line wider than the box ends the scan of the cuts
TooWideOrFull(width, max_width) == width >= max_width
TooWide(width, max_width) == width > max_width

\* line 529: a stored cost gives way to a strictly smaller one only
ImprovesOrTies(total, stored) == total <= stored
Improves(total, stored) == total < stored

\* lines 522-531: the cuts j of the line that starts at word i
RECURSIVE InnerLoop(_, _, _, _, _, _, _)
InnerLoop(words, font, max_width, i, j, cost, breaks) ==
    IF j > Len(words) THEN [cost |-> cost, breaks |-> breaks]
    ELSE LET width == line_width(words, i, j, font)
             remaining == max_width - width
             penalty == remaining * remaining
             total == penalty + cost[j]
         IN  IF TooWide(width, max_width) THEN [cost |-> cost, breaks |-> breaks]
             ELSE IF Improves(total, cost[i])
             THEN InnerLoop(words, font, max_width, i, j + 1,
                            [cost EXCEPT ![i] = total], [breaks EXCEPT ![i] = j])
             ELSE InnerLoop(words, font, max_width, i, j + 1, cost, breaks)

\* lines 521-531: the line starts i, from the last word down to the first
RECURSIVE OuterLoop(_, _, _, _, _, _)
OuterLoop(words, font, max_width, i, cost, breaks) ==
    IF i < 0 THEN [cost |-> cost, breaks |-> breaks]
    ELSE LET row == InnerLoop(words, font, max_width, i, i + 1, cost, breaks)
         IN  OuterLoop(words, font, max_width, i - 1, row.cost, row.breaks)

\* lines 537-544: the lines read off the cuts
RECURSIVE ReadLines(_, _, _)
ReadLines(words, breaks, idx) ==
    IF idx >= Len(words) THEN <<>>
    ELSE LET nxt == breaks[idx]
         IN  IF nxt <= idx THEN <<>>
             ELSE <<Join(SubSeq(words, idx + 1, nxt))>> \o ReadLines(words, breaks, nxt)

\* lines 482-546
_wrap_text_balanced(text, font, max_width) ==
    LET stripped == Strip(text)
        words == Split(stripped)
        n == Len(words)
        greedy == _wrap_text_to_width(stripped, font, max_width)
    IN  IF stripped = <<>> \/ words = <<>> THEN <<>>
        ELSE IF \E k \in DOMAIN words : TextWidth(words[k], font) > max_width
        THEN greedy
        ELSE LET dp == OuterLoop(words, font, max_width, n - 1,
                                 [k \in 0..n |-> IF k = n THEN 0 ELSE inf],
                                 [k \in 0..(n - 1) |-> n])
                 lines == ReadLines(words, dp.breaks, 0)
             IN  IF dp.cost[0] >= inf \/ lines = <<>> THEN greedy ELSE lines

---------------------------------------------------------------------------
(* The blurb: block height and the font that fits *)

min_size == 10
max_size == 24

\* lines 610-611: the gap after the last line of a paragraph is taken back
NoTrailingGap(wrapped, line_gap) == 0
TrailingGap(wrapped, line_gap) == IF wrapped # <<>> THEN line_gap ELSE 0

RECURSIVE LinesHeight(_, _, _)
LinesHeight(wrapped, font, line_gap) ==
    IF wrapped = <<>> THEN 0
    ELSE TextHeight(Head(wrapped), font) + line_gap
         + LinesHeight(Tail(wrapped), font, line_gap)

\* lines 603-614, from paragraph idx (counted from 1) on
RECURSIVE HeightFrom(_, _, _, _, _, _)
HeightFrom(blurb_lines, idx, font, max_w, line_gap, para_gap) ==
    IF idx > Len(blurb_lines) THEN 0
    ELSE LET wrapped == _wrap_text_balanced(blurb_lines[idx], font, max_w)
         IN  LinesHeight(wrapped, font, line_gap)
             - TrailingGap(wrapped, line_gap)
             + (IF idx < Len(blurb_lines) THEN para_gap ELSE 0)
             + HeightFrom(blurb_lines, idx + 1, font, max_w, line_gap, para_gap)

_calculate_blurb_height(blurb_lines, font, max_w, line_gap, para_gap) ==
    HeightFrom(blurb_lines, 1, font, max_w, line_gap, para_gap)

\* line 639: if total_height <= max_h
FitsBoxNever(total_height, max_h) == FALSE
FitsBox(total_height, max_h) == total_height <= max_h

\* lines 630-642: the candidate sizes from base_size down; a font is its
\* pixel size
RECURSIVE FitLoop(_, _, _, _, _)
FitLoop(base_size, blurb_lines, max_w, max_h, sc) ==
    IF base_size < min_size THEN _s(min_size, sc)
    ELSE LET font == _s(base_size, sc)
             total_height == _calculate_blurb_height(blurb_lines, font, max_w,
                                                     _s(4, sc), _s(8, sc))
         IN  IF FitsBox(total_height, max_h) THEN font
             ELSE FitLoop(base_size - 1, blurb_lines, max_w, max_h, sc)

\* lines 616-642
_find_optimal_blurb_font_size(blurb_lines, max_w, max_h, sc) ==
    FitLoop(max_size, blurb_lines, max_w, max_h, sc)

---------------------------------------------------------------------------
(* Team header *)

\* the bitmaps of a sprite list: a fetched sprite and the bitmap
\* Image.new("RGBA", sprite_size, (128, 128, 128, 100)) of line 125
Sprite(sprite_size) == [size |-> sprite_size, art |-> TRUE, fill |-> <<0, 0, 0, 0>>]
Placeholder(sprite_size) ==
    [size |-> sprite_size, art |-> FALSE, fill |-> <<128, 128, 128, 100>>]

\* get_team_sprites, lines 90-128 of pokemon.py, on the results of its
\* get_pokemon_sprite calls: a fetched sprite is fitted into a bitmap of
\* sprite_size, a failed fetch (None) becomes a placeholder; no entry is None
get_team_sprites(fetched, sprite_size) ==
    [k \in DOMAIN fetched |->
        IF fetched[k].none THEN Some(Placeholder(sprite_size))
        ELSE Some(Sprite(sprite_size))]

\* [s for s in (sprites or [])[:6] if s is not None], as the slots kept
TeamSlots(sprites) ==
    LET first == [k \in 1..Min(6, Len(sprites)) |-> k]
        Kept(k) == ~sprites[k].none
    IN  SelectSeq(first, Kept)

\* lines 579-580: the row is moved right by half of the free width
CentreLeft(start_x, available_w, total_needed) == start_x
CentreStart(start_x, available_w, total_needed) ==
    IF total_needed < available_w
    THEN start_x + ((available_w - total_needed) \div 2)
    ELSE start_x

\* _draw_team_header, lines 548-590: the pastes made, in order
_draw_team_header(sprites, sc) ==
    LET container_x == _s(236, sc)
        container_y == _s(24, sc)
        container_w == _s(555, sc)
        container_h == _s(84, sc)
        pad_x == _s(24, sc)
        available_w == container_w - (2 * pad_x)
        team == TeamSlots(sprites)
        n == Len(team)
        spacing == IF _s(4, sc) > _s(BASE_POKEMON_SPACING, sc) THEN _s(4, sc)
                   ELSE _s(BASE_POKEMON_SPACING, sc)
        full_size == _s(BASE_POKEMON_SPRITE_SIZE, sc)
        shrink == n * full_size + (n - 1) * spacing > available_w
        room == available_w - (n - 1) * spacing
        share == IF room >= 0 THEN room \div n ELSE -((-room) \div n)
        sprite_size == IF ~shrink THEN full_size
                       ELSE IF _s(20, sc) > share THEN _s(20, sc) ELSE share
        total_needed == n * sprite_size + (n - 1) * spacing
        sprite_y == container_y + ((container_h - sprite_size) \div 2)
        start_x == CentreStart(container_x + pad_x, available_w, total_needed)
        x(i) == start_x + (i - 1) * (sprite_size + spacing)
        Inside(i) == x(i) + sprite_size <= container_x + container_w - pad_x
        pasted == {i \in 1..n : \A j \in 1..i : Inside(j)}
    IN  IF n = 0 \/ available_w <= 0 THEN <<>>
        ELSE [i \in 1..Cardinality(pasted) |->
                [slot |-> team[i],
                 image |-> [sprites[team[i]].v EXCEPT
                               !.size = <<sprite_size, sprite_size>>],
                 at |-> <<x(i), sprite_y>>]]

---------------------------------------------------------------------------
(* The sprite fetcher *)

\* line 30: f"{pokemon_name}_shiny" if shiny else pokemon_name
cache_key(pokemon_name, shiny) ==
    IF shiny THEN pokemon_name \o <<"_", "s", "h", "i", "n", "y">> ELSE pokemon_name

\* the bitmap decoded at line 59: the sprite of that name, shiny or not
SpriteOf(pokemon_name, shiny) == [name |-> pokemon_name, shiny |-> shiny]

\* no PokemonFetcher yet; calls, gets and fetched are kept beside the
\* object: the number of get_pokemon_sprite calls, the number of
\* session.get requests, and the (name, shiny) pairs fetched with success
NoFetcher ==
    [made |-> FALSE, sprite_cache |-> <<>>, calls |-> 0, gets |-> 0, fetched |-> {}]

---------------------------------------------------------------------------
(* Inputs *)

\* (name, percentage in tenths of a percent)
LangEntries == {<<Go, 30>>, <<GoLowerSpaced, 0>>, <<Blank, 10>>}
LangLists == UNION {[1..n -> LangEntries] : n \in 0..MaxLangs}

ExcludedLists ==
    {None, Some(<<>>), Some(<<GoUpperSpaced>>), Some(<<Empty>>),
     Some(<<Blank>>), Some(<<Empty, Go>>)}

GoodValues == <<Some(1234), Some(500), Some(10), Some(2), Some(300)>>
NullStars == <<None, Some(500), Some(10), Some(2), Some(300)>>

MkStats(values, languages, excluded, scale_bars, gradient, border) ==
    [values |-> values, languages |-> languages, excluded_languages |-> excluded,
     scale_language_bars |-> scale_bars, language_gradient |-> gradient,
     language_bar_border |-> border]

\* the stats bundles a whole render is run on
RenderStats ==
    {MkStats(v, l, x, sb, TRUE, b) :
        v \in {GoodValues, NullStars},
        l \in {None, Some(<<>>), Some(<<<<Python, 600>>, <<Go, 400>>>>),
               Some(<<<<Go, 0>>, <<GoLowerSpaced, 0>>>>)},
        x \in {None, Some(<<GoUpperSpaced>>)},
        sb \in BOOLEAN, b \in BOOLEAN}

\* the stats bundles _draw_stats_section alone is run on
SectionStats ==
    {MkStats(GoodValues, l, x, sb, TRUE, b) :
        l \in {None} \cup {Some(ll) : ll \in LangLists},
        x \in ExcludedLists, sb \in BOOLEAN, b \in BOOLEAN}

\* the blurbs (None is [] at line 334) and sprite lists (TRUE: an image,
\* FALSE: None) a whole render is run on
RenderBlurbs == {<<>>, <<<<"a", " ", "W">>>>}
RenderSprites == {<<>>, <<TRUE, FALSE>>}

NoArgs ==
    [profile |-> FALSE, stats |-> MkStats(GoodValues, None, None, TRUE, TRUE, FALSE),
     blurb_lines |-> <<>>, pokemon_sprites |-> <<>>]

NoCall == [op |-> "none"]

\* the texts, fonts (pixel sizes) and widths the wrappers alone are run on
TextChars == {"a", "W", " "}
Texts == UNION {[1..n -> TextChars] : n \in 0..MaxText}
WrapFonts == {2}
WrapWidths == 0..MaxWrapWidth

\* the paragraphs, blurbs and boxes _find_optimal_blurb_font_size alone is
\* run on
FitParas ==
    {<<>>, <<"a">>, <<"W", " ", "W", " ", "W", " ", "W">>,
     <<"a", "a", " ", "a", "a", " ", " ", "a", "a", " ", "W">>,
     <<"W", "W", "W", " ", "a">>}
Blurbs == UNION {[1..n -> FitParas] : n \in 0..MaxParas}
FitWidths == {96, 320}
FitHeights == {30, 64, 100, 258}

\* the heights and language lists _draw_vertical_language_bar alone is run on
BarHeights == 1..MaxBarH \cup {49}
BarEntries == {<<Go, 480>>, <<GoLower, 10>>, <<Blank, 10>>, <<Blank, 0>>}
BarLists == UNION {[1..n -> BarEntries] : n \in 0..MaxBarLangs}

\* the sprite lists _draw_team_header alone is run on: lists with None
\* entries as given, and the same lists passed through get_team_sprites
MaxTeam == 7
TeamLists == UNION {[1..n -> {None, Some(Sprite(<<96, 96>>))}] : n \in 0..MaxTeam}

\* the heights and language lists the rows of the bar are filled for, at
\* every scale: whole percents whose quotients and blends the doubles give
\* exactly
MaxGradH == 8
MaxGradLangs == 3
GradEntries == {<<Go, 20>>, <<Blank, 10>>, <<Blank, 0>>}
GradLists == UNION {[1..n -> GradEntries] : n \in 0..MaxGradLangs}

\* the names get_pokemon_sprite is called with, and how a fetch can end:
\* with the bitmap, with an exception of the first request, without a
\* sprite URL in the answer, or with an exception of the second request
MaxFetches == 3
FetchNames ==
    {<<"p">>, <<" ", "P">>, <<"g">>, <<"p", "_", "s", "h", "i", "n", "y">>}
FetchOutcomes == {"ok", "http_error", "no_sprite_url", "image_error"}

---------------------------------------------------------------------------
(* __init__ *)

Init ==
    /\ rstate = "none"
    /\ scaleArg = [type |-> "None", val |-> NaN]
    /\ scale = Fin(0)
    /\ dims = NoDims
    /\ built = {}
    /\ nbuilt = 0
    /\ pc = "idle"
    /\ args = NoArgs
    /\ steps = <<>>
    /\ canvas = <<0, 0>>
    /\ panel = NoPanel
    /\ files = 0
    /\ error = "none"
    /\ renders = 0
    /\ call = NoCall
    /\ fetcher = NoFetcher

\* StatsCardRenderer(theme, scale): lines 65-87. The first _s call raises
\* when self.scale is nan or infinite, and then no renderer exists.
ConstructWith(arg) ==
    LET sc == CoerceScale(arg)
        err == ScaleError(sc)
    IN  /\ scaleArg' = arg
        /\ scale' = sc
        /\ nbuilt' = nbuilt + 1
        /\ pc' = "idle"
        /\ args' = NoArgs
        /\ steps' = <<>>
        /\ canvas' = <<0, 0>>
        /\ panel' = NoPanel
        /\ files' = 0
        /\ renders' = 0
        /\ call' = NoCall
        /\ fetcher' = fetcher
        /\ error' = err
        /\ IF err = "none"
           THEN /\ rstate' = "ready"
                /\ dims' = ScaledDims(sc)
                /\ built' = built \cup
                      {[scale |-> sc.q, CARD_WIDTH |-> ScaledDims(sc).CARD_WIDTH,
                        CARD_HEIGHT |-> ScaledDims(sc).CARD_HEIGHT]}
           ELSE /\ rstate' = "ctor_raised"
                /\ dims' = NoDims
                /\ built' = built

Construct ==
    /\ rstate = "none"
    /\ \E arg \in ScaleArgs : ConstructWith(arg)

\* a further renderer, built after the first
ConstructAnother ==
    /\ rstate # "none"
    /\ nbuilt < MaxRenderers
    /\ \E arg \in ScaleArgs : ConstructWith(arg)

\* StatsCardRenderer(theme) of main.py: the default scale
ConstructDefault ==
    /\ rstate = "none"
    /\ ConstructWith([type |-> "float", val |-> DefaultScale])

---------------------------------------------------------------------------
(* render *)

\* the order of the calls in render, lines 310-349
StepOrderTailFirst ==
    <<"background", "containers", "team", "greeting", "tail", "profile",
      "blurb", "stats", "etch", "border", "mkdir", "save">>
StepOrder ==
    <<"background", "containers", "team", "greeting", "profile", "tail",
      "blurb", "stats", "etch", "border", "mkdir", "save">>

After(p) ==
    LET i == CHOOSE k \in DOMAIN StepOrder : StepOrder[k] = p
    IN  IF i = Len(StepOrder) THEN "done" ELSE StepOrder[i + 1]

\* render has no try: an exception of a step ends the call
OnErrorContinue(p) == After(p)
OnError(p) == "raised"

\* a drawing step of render: it reads the renderer and its arguments and
\* writes the image only
DrawAndRescale(p, log) ==
    /\ rstate = "ready"
    /\ pc = p
    /\ pc' = After(p)
    /\ steps' = steps \o log
    /\ scale' = Fin(2 * scale.q)
    /\ dims' = ScaledDims(Fin(2 * scale.q))
    /\ UNCHANGED <<fetcher, call, rstate, scaleArg, built, nbuilt, args, canvas,
                   panel, files, error, renders>>
Draw(p, log) ==
    /\ rstate = "ready"
    /\ pc = p
    /\ pc' = After(p)
    /\ steps' = steps \o log
    /\ UNCHANGED <<fetcher, call, rstate, scaleArg, scale, dims, built, nbuilt, args, canvas,
                   panel, files, error, renders>>

Raise(p, e) ==
    /\ rstate = "ready"
    /\ pc = p
    /\ pc' = OnError(p)
    /\ error' = e
    /\ UNCHANGED <<fetcher, call, rstate, scaleArg, scale, dims, built, nbuilt, args, canvas,
                   steps, panel, files, renders>>

\* the call and Image.new, lines 284-308
StartRender ==
    /\ rstate = "ready"
    /\ pc \in {"idle", "done", "raised"}
    /\ renders < MaxRenders
    /\ \E profile \in BOOLEAN, stats \in RenderStats,
          blurb_lines \in RenderBlurbs, pokemon_sprites \in RenderSprites :
          args' = [profile |-> profile, stats |-> stats, blurb_lines |-> blurb_lines,
                   pokemon_sprites |-> pokemon_sprites]
    /\ canvas' = <<dims.CARD_WIDTH, dims.CARD_HEIGHT>>
    /\ pc' = StepOrder[1]
    /\ steps' = <<>>
    /\ panel' = NoPanel
    /\ files' = 0
    /\ error' = "none"
    /\ renders' = renders + 1
    /\ UNCHANGED <<fetcher, call, rstate, scaleArg, scale, dims, built, nbuilt>>

DrawBackground == Draw("background", <<"background">>)

DrawLayoutContainers ==
    Draw("containers", <<"header_box", "bubble_body">>)

DrawTeamHeader == Draw("team", <<"team">>)

DrawGreeting == Draw("greeting", <<"greeting">>)

\* lines 328-329: only when a profile image is given
DrawProfileImage ==
    Draw("profile", IF args.profile THEN <<"profile">> ELSE <<>>)

DrawSpeechBubbleTail == Draw("tail", <<"tail">>)

DrawBlurbSection == Draw("blurb", <<"blurb">>)

DrawStatsSection ==
    LET result == _draw_stats_section(args.stats, scale)
    IN  /\ rstate = "ready"
        /\ pc = "stats"
        /\ panel' = result
        /\ IF result.error = "none"
           THEN /\ pc' = After("stats")
                /\ steps' = Append(steps, "stats")
                /\ error' = error
           ELSE /\ pc' = OnError("stats")
                /\ steps' = steps
                /\ error' = result.error
        /\ UNCHANGED <<fetcher, call, rstate, scaleArg, scale, dims, built, nbuilt, args, canvas,
                       files, renders>>

DrawEtchLines == Draw("etch", <<"etch">>)

DrawBorder == Draw("border", <<"border">>)

\* output_path.parent.mkdir(parents=True, exist_ok=True): may raise OSError
MkdirParent ==
    \/ Draw("mkdir", <<"mkdir">>)
    \/ Raise("mkdir", "OSError")

\* image.save(output_path, "PNG"): writes the file or raises OSError
SaveImage ==
    \/ /\ rstate = "ready"
       /\ pc = "save"
       /\ pc' = After("save")
       /\ steps' = Append(steps, "save")
       /\ files' = files + 1
       /\ UNCHANGED <<fetcher, call, rstate, scaleArg, scale, dims, built, nbuilt, args, canvas,
                      panel, error, renders>>
    \/ Raise("save", "OSError")

\* _draw_stats_section called on its own on a fresh renderer
CallDrawStatsSection ==
    /\ rstate = "ready"
    /\ pc = "idle"
    /\ \E stats \in SectionStats :
          /\ args' = [NoArgs EXCEPT !.stats = stats]
          /\ panel' = _draw_stats_section(stats, scale)
          /\ error' = _draw_stats_section(stats, scale).error
    /\ pc' = "done"
    /\ UNCHANGED <<fetcher, call, rstate, scaleArg, scale, dims, built, nbuilt, steps, canvas,
                   files, renders>>

\* _draw_vertical_language_bar called on its own on a fresh renderer
CallDrawBar ==
    /\ rstate = "ready"
    /\ call.op = "none"
    /\ \E h \in BarHeights, languages \in BarLists, scale_bars \in BOOLEAN :
          LET bar == _draw_vertical_language_bar(h, languages, scale_bars, TRUE, FALSE)
          IN  /\ call' = [op |-> "bar", h |-> h, languages |-> languages,
                          scale_bars |-> scale_bars, bar |-> bar]
              /\ error' = bar.error
    /\ UNCHANGED <<fetcher, rstate, scaleArg, scale, dims, built, nbuilt, pc, args, steps,
                   canvas, panel, files, renders>>

\* _wrap_text_to_width called on its own on a fresh renderer
CallWrapGreedy ==
    /\ rstate = "ready"
    /\ call.op = "none"
    /\ \E text \in Texts, font \in WrapFonts, max_width \in WrapWidths :
          call' = [op |-> "greedy", text |-> text, font |-> font,
                   max_width |-> max_width,
                   lines |-> _wrap_text_to_width(text, font, max_width)]
    /\ UNCHANGED <<fetcher, rstate, scaleArg, scale, dims, built, nbuilt, pc, args, steps,
                   canvas, panel, files, error, renders>>

\* _wrap_text_balanced called on its own on a fresh renderer
CallWrapBalanced ==
    /\ rstate = "ready"
    /\ call.op = "none"
    /\ \E text \in Texts, font \in WrapFonts, max_width \in WrapWidths :
          call' = [op |-> "balanced", text |-> text, font |-> font,
                   max_width |-> max_width,
                   lines |-> _wrap_text_balanced(text, font, max_width)]
    /\ UNCHANGED <<fetcher, rstate, scaleArg, scale, dims, built, nbuilt, pc, args, steps,
                   canvas, panel, files, error, renders>>

\* _find_optimal_blurb_font_size called on its own on a fresh renderer
CallFindFont ==
    /\ rstate = "ready"
    /\ call.op = "none"
    /\ \E blurb_lines \in Blurbs, max_w \in FitWidths, max_h \in FitHeights :
          call' = [op |-> "fit", blurb_lines |-> blurb_lines, max_w |-> max_w,
                   max_h |-> max_h,
                   font |-> _find_optimal_blurb_font_size(blurb_lines, max_w, max_h, scale)]
    /\ UNCHANGED <<fetcher, rstate, scaleArg, scale, dims, built, nbuilt, pc, args, steps,
                   canvas, panel, files, error, renders>>

\* _draw_vertical_language_legend called on its own on a fresh renderer
CallDrawLegend ==
    /\ rstate = "ready"
    /\ call.op = "none"
    /\ \E languages \in BarLists :
          call' = [op |-> "legend", languages |-> languages,
                   legend |-> _draw_vertical_language_legend(languages)]
    /\ UNCHANGED <<fetcher, rstate, scaleArg, scale, dims, built, nbuilt, pc, args, steps,
                   canvas, panel, files, error, renders>>

\* _draw_team_header called on its own, on a sprite list of the caller or
\* on the list get_team_sprites makes of the same fetch results
CallDrawTeamHeader ==
    /\ rstate = "ready"
    /\ call.op = "none"
    /\ \E given \in TeamLists, fetched \in BOOLEAN :
          LET sprites == IF fetched THEN get_team_sprites(given, <<96, 96>>)
                         ELSE given
          IN  call' = [op |-> "team", given |-> given, fetched |-> fetched,
                       sprites |-> sprites,
                       drawn |-> _draw_team_header(sprites, scale)]
    /\ UNCHANGED <<fetcher, rstate, scaleArg, scale, dims, built, nbuilt, pc, args, steps,
                   canvas, panel, files, error, renders>>

\* _draw_vertical_language_bar called on its own on a renderer of any
\* scale, with the rows of the image it pastes
CallDrawBarRows ==
    /\ rstate = "ready"
    /\ call.op = "none"
    /\ \E h \in 1..MaxGradH, languages \in GradLists,
          scale_bars \in BOOLEAN, use_gradient \in BOOLEAN :
          LET bar == _draw_vertical_language_bar(h, languages, scale_bars,
                                                 use_gradient, FALSE)
              rows == IF bar.segments = <<>> THEN <<>>
                      ELSE RowsFrom(bar.segments, 0, h, _s(8, scale), use_gradient)
              raised == {k \in DOMAIN rows : rows[k].error # "none"}
          IN  /\ call' = [op |-> "rows", h |-> h, languages |-> languages,
                          scale_bars |-> scale_bars, use_gradient |-> use_gradient,
                          gradient_size |-> _s(8, scale), bar |-> bar, rows |-> rows]
              /\ error' = IF raised = {} THEN bar.error ELSE "ZeroDivisionError"
    /\ UNCHANGED <<fetcher, rstate, scaleArg, scale, dims, built, nbuilt, pc, args, steps,
                   canvas, panel, files, renders>>

\* PokemonFetcher(): lines 14-16 of pokemon.py
NewFetcher ==
    /\ ~fetcher.made
    /\ fetcher' = [NoFetcher EXCEPT !.made = TRUE]
    /\ UNCHANGED <<call, rstate, scaleArg, scale, dims, built, nbuilt, pc, args,
                   steps, canvas, panel, files, error, renders>>

\* get_pokemon_sprite, lines 18-75 of pokemon.py: every exception of a
\* fetch is caught and None returned
GetPokemonSprite ==
    /\ fetcher.made
    /\ fetcher.calls < MaxFetches
    /\ \E raw \in FetchNames, shiny \in BOOLEAN, outcome \in FetchOutcomes :
          LET pokemon_name == Strip(Lower(raw))
              key == cache_key(pokemon_name, shiny)
              hit == key \in DOMAIN fetcher.sprite_cache
              image == SpriteOf(pokemon_name, shiny)
              stored == ~hit /\ outcome = "ok"
              gets == IF hit THEN 0
                      ELSE IF outcome \in {"ok", "image_error"} THEN 2 ELSE 1
          IN  /\ fetcher' =
                    [fetcher EXCEPT
                        !.calls = @ + 1,
                        !.gets = @ + gets,
                        !.fetched = IF stored THEN @ \cup {<<pokemon_name, shiny>>} ELSE @,
                        !.sprite_cache =
                            IF stored
                            THEN [k \in DOMAIN @ \cup {key} |->
                                     IF k = key THEN image ELSE @[k]]
                            ELSE @]
              /\ call' = [op |-> "sprite", pokemon_name |-> pokemon_name,
                          shiny |-> shiny, hit |-> hit, gets |-> gets,
                          result |-> IF hit THEN Some(fetcher.sprite_cache[key])
                                     ELSE IF outcome = "ok" THEN Some(image)
                                     ELSE None]
    /\ UNCHANGED <<rstate, scaleArg, scale, dims, built, nbuilt, pc, args, steps,
                   canvas, panel, files, error, renders>>

Next ==
    \/ Construct
    \/ StartRender
    \/ DrawBackground
    \/ DrawLayoutContainers
    \/ DrawTeamHeader
    \/ DrawGreeting
    \/ DrawProfileImage
    \/ DrawSpeechBubbleTail
    \/ DrawBlurbSection
    \/ DrawStatsSection
    \/ DrawEtchLines
    \/ DrawBorder
    \/ MkdirParent
    \/ SaveImage

Spec == Init /\ [][Next]_vars

NextScale == Construct \/ ConstructAnother

SpecScale == Init /\ [][NextScale]_vars

NextLang == ConstructDefault \/ CallDrawStatsSection

SpecLang == Init /\ [][NextLang]_vars

NextWrap == ConstructDefault \/ CallWrapGreedy \/ CallWrapBalanced

SpecWrap == Init /\ [][NextWrap]_vars

NextFit == ConstructDefault \/ CallFindFont

SpecFit == Init /\ [][NextFit]_vars

NextBar == ConstructDefault \/ CallDrawBar \/ CallDrawLegend

SpecBar == Init /\ [][NextBar]_vars

NextTeam == Construct \/ CallDrawTeamHeader

SpecTeam == Init /\ [][NextTeam]_vars

NextRows == Construct \/ CallDrawBarRows

SpecRows == Init /\ [][NextRows]_vars

NextFetch == NewFetcher \/ GetPokemonSprite

SpecFetch == Init /\ [][NextFetch]_vars

---------------------------------------------------------------------------
(* Properties: the composition pass *)

Range(seq) == {seq[i] : i \in DOMAIN seq}

IsPrefix(a, b) == Len(a) <= Len(b) /\ a = SubSeq(b, 1, Len(a))

\* the steps of one complete render, the profile photo only when supplied
ExpectedSteps(profile) ==
    <<"background", "header_box", "bubble_body", "team", "greeting">>
    \o (IF profile THEN <<"profile">> ELSE <<>>)
    \o <<"tail", "blurb", "stats", "etch", "border", "mkdir", "save">>

\* C1: the steps a render has executed are always an initial part of the
\* fixed order background, header box, bubble body, team row, greeting,
\* profile photo (only with a profile image), tail, blurb, stats panel,
\* etch lines, border, mkdir, save - so no step is repeated and the tail
\* never precedes the photo - and a render that returned has executed all
\* of them, the tail included.
C1_LinearOrder ==
    (rstate = "ready" /\ renders > 0) =>
        /\ IsPrefix(steps, ExpectedSteps(args.profile))
        /\ pc = "done" => steps = ExpectedSteps(args.profile)

C1_Witness ==
    /\ pc = "done"
    /\ args.profile
    /\ Len(steps) = 13
    /\ renders = MaxRenders

\* C2: at most one file is written per render and only after every draw
\* step; a render ends either returned with the file written and no
\* exception, or raised with no file written, and after an exception no
\* later step is executed (the log stops before the step that raised).
C2_AllOrNothing ==
    (rstate = "ready" /\ renders > 0) =>
        /\ files <= 1
        /\ files = 1 <=> pc = "done"
        /\ files = 1 =>
              /\ error = "none"
              /\ steps = ExpectedSteps(args.profile)
        /\ error # "none" <=> pc = "raised"
        /\ pc = "raised" =>
              /\ Len(steps) < Len(ExpectedSteps(args.profile))
              /\ IsPrefix(steps, ExpectedSteps(args.profile))
              /\ error = "TypeError" => steps[Len(steps)] = "blurb"
              /\ error = "OSError" => steps[Len(steps)] \in {"border", "mkdir"}

C2_Witness ==
    /\ pc = "raised"
    /\ error = "OSError"
    /\ steps[Len(steps)] = "mkdir"
    /\ files = 0

---------------------------------------------------------------------------
(* Properties: the scaler *)

NonNumeric(a) == a.type \in {"None", "str"} \/ a.val.kind = "nan"
ZeroOrNegative(a) == ~NonNumeric(a) /\ a.val.kind = "fin" /\ a.val.q <= 0
PositiveNumeric(a) ==
    ~NonNumeric(a) /\ (a.val.kind = "inf" \/ (a.val.kind = "fin" /\ a.val.q > 0))

\* C3: a scale that is not a number, zero or negative makes __init__ return
\* without raising and with scale 2.0; a positive number is kept as the
\* scale; the scale of a constructed renderer is > 0.
C3_ScaleFallback ==
    (rstate # "none") =>
        /\ (NonNumeric(scaleArg) \/ ZeroOrNegative(scaleArg)) =>
              (rstate = "ready" /\ error = "none" /\ scale = DefaultScale)
        /\ PositiveNumeric(scaleArg) => scale = scaleArg.val
        /\ rstate = "ready" => (scale.kind = "fin" /\ scale.q > 0)

Abs(x) == IF x < 0 THEN -x ELSE x

\* k is round(n / d): the nearest integer, the even one of two nearest
IsRound(k, n, d) ==
    \/ 2 * Abs(n - k * d) < d
    \/ 2 * Abs(n - k * d) = d /\ k % 2 = 0

IsScaled(k, base) == IsRound(k, base * scale.q, ScaleDen)

\* C4: every scaled dimension of a constructed renderer is round(base *
\* scale) for its base value, and the canvas render creates is
\* round(800 * scale) by round(400 * scale).
C4_ScaledDims ==
    (rstate = "ready") =>
        /\ IsScaled(dims.CARD_WIDTH, 800)
        /\ IsScaled(dims.CARD_HEIGHT, 400)
        /\ IsScaled(dims.PADDING, 30)
        /\ IsScaled(dims.CORNER_RADIUS, 20)
        /\ IsScaled(dims.POKEMON_SPRITE_SIZE, 55)
        /\ IsScaled(dims.POKEMON_SPACING, 5)
        /\ IsScaled(dims.STATS_START_X, 320)
        /\ IsScaled(dims.LANGUAGE_BAR_WIDTH, 11)
        /\ IsScaled(dims.LANGUAGE_BAR_HEIGHT, 201)
        /\ renders > 0 =>
              /\ IsScaled(canvas[1], 800)
              /\ IsScaled(canvas[2], 400)

\* a render at scale 1/2, where 5 * s, 55 * s, 11 * s and 201 * s are ties
C4_Witness ==
    /\ rstate = "ready"
    /\ 2 * scale.q = ScaleDen
    /\ pc = "done"
    /\ canvas = <<400, 200>>
    /\ dims.POKEMON_SPACING = 2
    /\ dims.POKEMON_SPRITE_SIZE = 28

\* C5 as stated: the canvas of a renderer of scale 2s is exactly twice the
\* canvas of a renderer of scale s.
C5_DoublingExact ==
    \A a \in built, b \in built :
        b.scale = 2 * a.scale =>
            /\ b.CARD_WIDTH = 2 * a.CARD_WIDTH
            /\ b.CARD_HEIGHT = 2 * a.CARD_HEIGHT

\* C5 amended: the canvas width and height at scale 2s are within one pixel
\* of twice those at scale s, and exactly twice them when 800 * s and
\* 400 * s are whole numbers.
C5_DoublingWithinOne ==
    \A a \in built, b \in built :
        b.scale = 2 * a.scale =>
            /\ Abs(b.CARD_WIDTH - 2 * a.CARD_WIDTH) <= 1
            /\ Abs(b.CARD_HEIGHT - 2 * a.CARD_HEIGHT) <= 1
            /\ (800 * a.scale) % ScaleDen = 0 => b.CARD_WIDTH = 2 * a.CARD_WIDTH
            /\ (400 * a.scale) % ScaleDen = 0 => b.CARD_HEIGHT = 2 * a.CARD_HEIGHT

\* two renderers of scales s and 2s with 400 * s a whole number
C5_Witness ==
    \E a \in built, b \in built :
        /\ b.scale = 2 * a.scale
        /\ (400 * a.scale) % ScaleDen = 0
        /\ a.CARD_HEIGHT > 0
        /\ b.CARD_HEIGHT = 2 * a.CARD_HEIGHT

---------------------------------------------------------------------------
(* Properties: language filtering and the language bar *)

\* a name with case folded and surrounding whitespace cut
Canon(str) ==
    LET inner == {i \in DOMAIN str : str[i] \notin Whitespace}
        lo == CHOOSE i \in inner : \A j \in inner : i <= j
        hi == CHOOSE i \in inner : \A j \in inner : j <= i
    IN  IF inner = {} THEN <<>> ELSE CaseFold(SubSeq(str, lo, hi))

InputLanguages == OrEmpty(args.stats.languages)
InputExcluded == OrEmpty(args.stats.excluded_languages)

\* the entries whose name matches none of the given excluded names
Surviving(languages, names) ==
    SelectSeq(languages, LAMBDA e : Canon(e[1]) \notin {Canon(x) : x \in names})

SectionReturned == rstate = "ready" /\ pc = "done" /\ error = "none"

\* C6 as stated: the filtered list is the input list without the entries
\* whose trimmed, case-folded name equals that of any excluded name.
C6_FilterAnyExcluded ==
    SectionReturned =>
        panel.languages = Surviving(InputLanguages, Range(InputExcluded))

\* C6 amended: the filtered list is the input list, in order and with the
\* percentages unchanged, without the entries whose trimmed, case-folded
\* name equals that of a non-empty excluded name; empty excluded names are
\* ignored.
C6_FilterNonEmptyExcluded ==
    SectionReturned =>
        panel.languages =
            Surviving(InputLanguages, {x \in Range(InputExcluded) : x # <<>>})

\* a name differing from the excluded one in case and whitespace is removed
\* and another entry is kept
C6_Witness ==
    /\ SectionReturned
    /\ InputExcluded = <<GoUpperSpaced>>
    /\ Len(InputLanguages) = 3
    /\ InputLanguages[2] = <<GoLowerSpaced, 0>>
    /\ panel.languages = <<<<Blank, 10>>, <<Blank, 10>>>>

\* C7: filtering the filtered list again by the same excluded names changes
\* nothing, and with excluded names None or empty the section works on the
\* language list as given, without error.
C7_FilterIdempotent ==
    (rstate = "ready" /\ pc = "done") =>
        /\ error = "none"
        /\ SectionLanguages([args.stats EXCEPT !.languages = Some(panel.languages)])
              = panel.languages
        /\ InputExcluded = <<>> => panel.languages = InputLanguages

\* two entries match the excluded name and both are gone after one pass
C7_Witness ==
    /\ SectionReturned
    /\ InputExcluded = <<GoUpperSpaced>>
    /\ InputLanguages = <<<<Go, 30>>, <<Blank, 10>>, <<GoLowerSpaced, 0>>>>
    /\ panel.languages = <<<<Blank, 10>>>>

\* the first five entries of the list that remains after filtering
FirstFiveRemaining ==
    LET remaining ==
            Surviving(InputLanguages, {x \in Range(InputExcluded) : x # <<>>})
    IN  SubSeq(remaining, 1, IF Len(remaining) < 5 THEN Len(remaining) ELSE 5)

\* C8: the bar has at most 5 segments and the legend at most 5 rows; every
\* segment shows one of the first five entries that remain after
\* filtering, and the legend rows are exactly those entries in order.
C8_AtMostFive ==
    SectionReturned =>
        /\ Len(panel.bar.segments) <= 5
        /\ Len(panel.legend) <= 5
        /\ \A k \in DOMAIN panel.bar.segments :
              LET seg == panel.bar.segments[k]
              IN  /\ seg.lang + 1 \in DOMAIN FirstFiveRemaining
                  /\ seg.entry = FirstFiveRemaining[seg.lang + 1]
        /\ Len(panel.legend) = Len(FirstFiveRemaining)
        /\ \A k \in DOMAIN panel.legend :
              /\ panel.legend[k].lang = k - 1
              /\ panel.legend[k].entry = FirstFiveRemaining[k]

\* six entries remain, the sixth the only one with a positive percentage
C8_Witness ==
    /\ SectionReturned
    /\ Len(panel.languages) = 6
    /\ panel.languages[6][2] > 0
    /\ \A i \in 1..4 : panel.languages[i][2] = 0
    /\ panel.languages[5][2] > 0
    /\ Len(panel.legend) = 5
    /\ Len(panel.bar.segments) = 1

ValuesGiven == \A i \in DOMAIN args.stats.values : ~args.stats.values[i].none

NoneRemains == FirstFiveRemaining = <<>>

\* C9: when no language remains after filtering, the stats section draws
\* its five rows and none of the languages label, the bar (background pill,
\* fill, border) and the legend, raises nothing, and the render goes on:
\* only mkdir or save can still end it.
C9_NoLanguages ==
    (rstate = "ready" /\ renders > 0 /\ ValuesGiven /\ NoneRemains) =>
        /\ error \in {"none", "OSError"}
        /\ pc = "raised" => "stats" \in Range(steps)
        /\ "stats" \in Range(steps) =>
              /\ panel.stats_label
              /\ Len(panel.rows) = 5
              /\ ~panel.languages_label
              /\ panel.bar = NoBar
              /\ panel.legend = <<>>
              /\ panel.error = "none"

\* a completed render whose languages were all excluded
C9_Witness ==
    /\ pc = "done"
    /\ files = 1
    /\ ValuesGiven
    /\ Len(InputLanguages) = 2
    /\ NoneRemains
    /\ Len(panel.rows) = 5

ZeroSumVisible ==
    /\ FirstFiveRemaining # <<>>
    /\ \A i \in DOMAIN FirstFiveRemaining : FirstFiveRemaining[i][2] = 0

\* C10 as stated: with visible languages whose percentages sum to zero
\* nothing of the bar is drawn and no error is raised.
C10_NothingDrawn ==
    (rstate = "ready" /\ pc = "done" /\ ZeroSumVisible) =>
        /\ error = "none"
        /\ ~panel.bar.background
        /\ panel.bar.segments = <<>>
        /\ ~panel.bar.pasted
        /\ ~panel.bar.border

\* C10 amended: with visible languages whose percentages sum to zero the
\* bar's fill and border are not drawn and no error is raised; the bar's
\* background pill is drawn.
C10_OnlyBackground ==
    (rstate = "ready" /\ pc = "done" /\ ZeroSumVisible) =>
        /\ error = "none"
        /\ panel.bar.called
        /\ panel.bar.background
        /\ panel.bar.segments = <<>>
        /\ ~panel.bar.pasted
        /\ ~panel.bar.border

\* proportional mode with the border asked for, a zero-sum visible set
C10_Witness ==
    /\ SectionReturned
    /\ ZeroSumVisible
    /\ Len(FirstFiveRemaining) = 5
    /\ args.stats.scale_language_bars
    /\ args.stats.language_bar_border
    /\ panel.bar.background
    /\ ~panel.bar.border

---------------------------------------------------------------------------
(* Properties: segment heights of the bar called on its own *)

BarCall == call.op = "bar"
LegendCall == call.op = "legend"
ProportionalCall == BarCall /\ call.scale_bars
EqualCall == BarCall /\ ~call.scale_bars

CallVisible ==
    IF BarCall \/ LegendCall
    THEN SubSeq(call.languages, 1, Min(5, Len(call.languages)))
    ELSE <<>>

\* the number of rows the bar gave to the i-th visible language, 0 if none
HeightOf(i) ==
    LET own == {k \in DOMAIN call.bar.segments : call.bar.segments[k].lang = i - 1}
    IN  IF own = {} THEN 0
        ELSE LET k == CHOOSE k \in own : TRUE
             IN  call.bar.segments[k].end - call.bar.segments[k].start

AtMostOneSegmentEach ==
    \A k, m \in DOMAIN call.bar.segments :
        call.bar.segments[k].lang = call.bar.segments[m].lang => k = m

\* C11 as stated: in proportional mode the segment of every visible language
\* has round(percentage / sum of the visible percentages * bar height)
\* rows, and a language whose rounded height is zero has no segment.
C11_RoundedHeights ==
    (ProportionalCall /\ SumPct(CallVisible) > 0) =>
        /\ AtMostOneSegmentEach
        /\ \A i \in DOMAIN CallVisible :
              IsRound(HeightOf(i), CallVisible[i][2] * call.h, SumPct(CallVisible))

\* C11 amended: the height is the product cut down to an integer, not
\* rounded: the largest integer not above the exact product, or one less
\* when the exact product is an integer and the product of doubles falls
\* just under it; a language whose height is then zero has no segment.
C11_TruncatedHeights ==
    (ProportionalCall /\ SumPct(CallVisible) > 0) =>
        /\ AtMostOneSegmentEach
        /\ \A i \in DOMAIN CallVisible :
              LET product == CallVisible[i][2] * call.h
                  total == SumPct(CallVisible)
              IN  \/ /\ HeightOf(i) * total <= product
                     /\ product < (HeightOf(i) + 1) * total
                  \/ /\ product = (HeightOf(i) + 1) * total
                     /\ <<CallVisible[i][2], total, call.h>> \in FloatUnder

\* a proportional bar with a segment one row shorter than the rounded
\* height and a language that got no segment
C11_Witness ==
    /\ ProportionalCall
    /\ Len(call.bar.segments) >= 2
    /\ \E i \in DOMAIN CallVisible :
          /\ HeightOf(i) >= 1
          /\ IsRound(HeightOf(i) + 1, CallVisible[i][2] * call.h, SumPct(CallVisible))
    /\ \E j \in DOMAIN CallVisible : CallVisible[j][2] > 0 /\ HeightOf(j) = 0

RECURSIVE SumRows(_)
SumRows(segments) ==
    IF segments = <<>> THEN 0
    ELSE Head(segments).end - Head(segments).start + SumRows(Tail(segments))

\* equal mode: the rows sum to the bar height, every language but the last
\* has bar height // count rows and the last has what is left
EqualShares ==
    LET count == Len(CallVisible)
    IN  /\ SumRows(call.bar.segments) = call.h
        /\ AtMostOneSegmentEach
        /\ \A i \in 1..(count - 1) : HeightOf(i) = call.h \div count
        /\ HeightOf(count) = call.h - (count - 1) * (call.h \div count)

\* C12 as stated: in equal mode, for every language count from 1 to 5 and
\* every bar height of at least 1, the segment heights sum to the bar
\* height; every segment but the last has bar height // count rows and the
\* last absorbs the remainder.
C12_EqualSum ==
    (EqualCall /\ Len(CallVisible) \in 1..5 /\ call.h >= 1) => EqualShares

\* C12 amended: the same for every such list whose percentages do not sum
\* to zero.
C12_EqualSumNonZero ==
    (EqualCall /\ Len(CallVisible) \in 1..5 /\ call.h >= 1
        /\ SumPct(CallVisible) # 0) => EqualShares

\* five languages share a bar whose height 5 does not divide, in equal mode
C12_Witness ==
    /\ EqualCall
    /\ Len(CallVisible) = 5
    /\ call.h % 5 = 2
    /\ call.h > 5
    /\ Len(call.bar.segments) = 5
    /\ HeightOf(5) = HeightOf(1) + 2

\* C13: in proportional mode, for non-negative percentages with a positive
\* sum, no segment is higher than the bar and every segment kept has at
\* least one row.
C13_ProportionalBound ==
    (ProportionalCall /\ SumPct(CallVisible) > 0
        /\ \A i \in DOMAIN CallVisible : CallVisible[i][2] >= 0) =>
        \A k \in DOMAIN call.bar.segments :
            LET rows == call.bar.segments[k].end - call.bar.segments[k].start
            IN  rows >= 1 /\ rows <= call.h

\* a proportional bar with a segment one row short of the bar and a
\* language of non-zero percentage that got no row
C13_Witness ==
    /\ ProportionalCall
    /\ call.h > 2
    /\ \E i, j \in DOMAIN CallVisible :
          /\ CallVisible[j][2] > 0
          /\ HeightOf(j) = 0
          /\ HeightOf(i) = call.h - 1

---------------------------------------------------------------------------
(* Properties: colors of the bar and the legend *)

TableNames == DOMAIN GITHUB_LANGUAGE_COLORS
SameIgnoringCase(a, b) == Lower(a) = Lower(b)
NeedsFallback(name) == \A lang \in TableNames : ~SameIgnoringCase(lang, name)

\* the number of entries before the i-th visible one that need the fallback
FallbacksBefore(i) ==
    Cardinality({k \in 1..(i - 1) : NeedsFallback(CallVisible[k][1])})

\* the color of the i-th visible entry when a fallback entry takes the
\* palette color of the given index
ColorWithFallback(i, index) ==
    LET name == CallVisible[i][1]
    IN  hex_to_rgba(
            IF name \in TableNames THEN GITHUB_LANGUAGE_COLORS[name]
            ELSE IF ~NeedsFallback(name)
            THEN GITHUB_LANGUAGE_COLORS[
                     CHOOSE lang \in TableNames : SameIgnoringCase(lang, name)]
            ELSE FALLBACK_LANGUAGE_COLORS[(index % 10) + 1])

\* the colored items the call drew: bar segments or legend rows
Colored ==
    IF BarCall THEN call.bar.segments
    ELSE IF LegendCall THEN call.legend
    ELSE <<>>

\* C14 as stated: the color of a visible language is the table color of its
\* exact name, else the table color of a name equal to it ignoring case,
\* else the fallback-palette color whose index is the entry's position
\* among the visible entries that needed the fallback (the first such
\* entry takes palette entry 0, the second entry 1, ...).
C14_FallbackByFallbackPosition ==
    \A k \in DOMAIN Colored :
        Colored[k].color =
            ColorWithFallback(Colored[k].lang + 1, FallbacksBefore(Colored[k].lang + 1))

\* C14 amended: ... else the fallback-palette color whose index is the
\* entry's position among all the visible entries, counted from 0.
C14_FallbackByVisiblePosition ==
    \A k \in DOMAIN Colored :
        Colored[k].color = ColorWithFallback(Colored[k].lang + 1, Colored[k].lang)

\* a bar whose first two segments take table colors, by exact name and
\* ignoring case, and whose third and fourth take fallback colors
C14_Witness ==
    /\ BarCall
    /\ Len(call.bar.segments) = 4
    /\ call.bar.segments[1].entry[1] = Go
    /\ call.bar.segments[2].entry[1] = GoLower
    /\ call.bar.segments[2].color = call.bar.segments[1].color
    /\ call.bar.segments[3].entry[1] = Blank
    /\ call.bar.segments[3].color = <<229, 192, 123, 255>>
    /\ call.bar.segments[4].color = <<97, 175, 239, 255>>

---------------------------------------------------------------------------
(* Properties: text wrapping *)

GreedyCall == call.op = "greedy"

\* the maximal runs of non-whitespace characters of str, as (first, last)
WordSpans(str) ==
    {span \in (DOMAIN str) \X (DOMAIN str) :
        /\ span[1] <= span[2]
        /\ \A k \in span[1]..span[2] : str[k] \notin Whitespace
        /\ span[1] = 1 \/ str[span[1] - 1] \in Whitespace
        /\ span[2] = Len(str) \/ str[span[2] + 1] \in Whitespace}

\* the words of str in reading order
WordList(str) ==
    LET spans == WordSpans(str)
    IN  [k \in 1..Cardinality(spans) |->
            LET span == CHOOSE sp \in spans :
                            Cardinality({o \in spans : o[1] < sp[1]}) = k - 1
            IN  SubSeq(str, span[1], span[2])]

RECURSIVE WordsOfLines(_)
WordsOfLines(lines) ==
    IF lines = <<>> THEN <<>> ELSE WordList(Head(lines)) \o WordsOfLines(Tail(lines))

\* C15: the words of the lines greedy wrap returns, read in order, are
\* exactly the whitespace-separated words of its input (none dropped,
\* duplicated, reordered or split), every line is non-empty, and an empty
\* or all-whitespace input gives no lines.
C15_GreedyKeepsWords ==
    GreedyCall =>
        /\ WordsOfLines(call.lines) = WordList(call.text)
        /\ \A k \in DOMAIN call.lines : call.lines[k] # <<>>
        /\ (\A k \in DOMAIN call.text : call.text[k] \in Whitespace) => call.lines = <<>>

\* three words after a leading space and around a double space, wrapped
\* into more than one line
C15_Witness ==
    /\ GreedyCall
    /\ Len(WordList(call.text)) = 3
    /\ Head(call.text) \in Whitespace
    /\ \E k \in 2..(Len(call.text) - 2) :
          call.text[k] \in Whitespace /\ call.text[k + 1] \in Whitespace
    /\ Len(call.lines) >= 2

\* C16: every line of greedy wrap with two or more words is at most
\* max_width wide; a line wider than max_width is one single word, itself
\* wider than max_width, alone on its line.
C16_GreedyWidth ==
    GreedyCall =>
        \A k \in DOMAIN call.lines :
            LET line == call.lines[k]
                width == TextWidth(line, call.font)
            IN  /\ Len(WordList(line)) >= 2 => width <= call.max_width
                /\ width > call.max_width =>
                      /\ Len(WordList(line)) = 1
                      /\ line = WordList(line)[1]
                      /\ TextWidth(WordList(line)[1], call.font) > call.max_width

\* a line of two words that fills the box exactly, followed by a word
\* wider than the box on a line of its own
C16_Witness ==
    /\ GreedyCall
    /\ Len(call.lines) = 2
    /\ Len(WordList(call.lines[1])) = 2
    /\ TextWidth(call.lines[1], call.font) = call.max_width
    /\ Len(WordList(call.lines[2])) = 1
    /\ TextWidth(call.lines[2], call.font) > call.max_width

BalancedCall == call.op = "balanced"

\* the words of the text, joined by single spaces, are not wider than the box
FitsOnOneLine ==
    /\ WordList(call.text) # <<>>
    /\ TextWidth(Join(WordList(call.text)), call.font) <= call.max_width

---------------------------------------------------------------------------
(* Properties: the font that fits the blurb *)

FitCall == call.op = "fit"

RECURSIVE SumSeq(_)
SumSeq(seq) == IF seq = <<>> THEN 0 ELSE Head(seq) + SumSeq(Tail(seq))

BaseSizes == min_size..max_size

\* the height of the wrapped blurb of the call at a base size: line height
\* plus line gap for every line, less one line gap for every paragraph
\* with lines, plus a paragraph gap between consecutive paragraphs
BlockHeight(base_size) ==
    LET font == _s(base_size, scale)
        paras == call.blurb_lines
        wrapped == [k \in DOMAIN paras |-> _wrap_text_balanced(paras[k], font, call.max_w)]
        lines == [k \in DOMAIN paras |->
                     SumSeq([m \in DOMAIN wrapped[k] |->
                                TextHeight(wrapped[k][m], font) + _s(4, scale)])]
    IN  SumSeq(lines)
        - _s(4, scale) * Cardinality({k \in DOMAIN paras : wrapped[k] # <<>>})
        + _s(8, scale) * (IF paras = <<>> THEN 0 ELSE Len(paras) - 1)

FittingSizes == {b \in BaseSizes : BlockHeight(b) <= call.max_h}

Largest(sizes) == CHOOSE b \in sizes : \A o \in sizes : o <= b

\* C18: auto-fit returns the font of the largest base size from 24 down to
\* 10 at which the height of the wrapped blurb is at most the box height,
\* and the font of size 10 when no size fits.
C18_LargestFit ==
    FitCall =>
        call.font = IF FittingSizes = {} THEN _s(10, scale)
                    ELSE _s(Largest(FittingSizes), scale)

\* a blurb of two paragraphs with lines that overflows at 24, fits at a
\* size above 10, and gets that size
C18_Witness ==
    /\ FitCall
    /\ Len(call.blurb_lines) = 2
    /\ \A k \in 1..2 : WordList(call.blurb_lines[k]) # <<>>
    /\ 24 \notin FittingSizes
    /\ \E b \in FittingSizes : b > 10 /\ b + 1 \notin FittingSizes
                                 /\ call.font = _s(b, scale)

FitsAt14Not24 == FitCall /\ 14 \in FittingSizes /\ 24 \notin FittingSizes

\* C19 as stated: for a blurb that fits the box at size 14 but not at size
\* 24, auto-fit selects a size of at most 14 at which the block fits.
C19_AtMost14 ==
    FitsAt14Not24 =>
        \E b \in FittingSizes : b <= 14 /\ call.font = _s(b, scale)

\* C19 amended: ... auto-fit selects the largest size at which the block
\* fits, a size of at least 14 and below 24, never one that overflows.
C19_AtLeast14 ==
    FitsAt14Not24 =>
        \E b \in FittingSizes :
            /\ b >= 14 /\ b < 24
            /\ call.font = _s(b, scale)
            /\ \A o \in FittingSizes : o <= b

\* a blurb that fits at 14 and not at 24, for which a size above 14 is
\* selected
C19_Witness ==
    /\ FitsAt14Not24
    /\ call.blurb_lines # <<>>
    /\ \E b \in 15..23 : call.font = _s(b, scale) /\ b \in FittingSizes

---------------------------------------------------------------------------
(* Properties: the default scenario *)

ScenarioStats ==
    MkStats(GoodValues, Some(<<<<Python, 600>>, <<Go, 400>>>>), None, TRUE, TRUE, FALSE)

\* a render, on a renderer of default scale, of the stats of the scenario
\* with an empty blurb, no sprites and no profile image
Scenario ==
    /\ rstate = "ready"
    /\ scaleArg.type = "None"
    /\ renders > 0
    /\ args.stats = ScenarioStats
    /\ args.blurb_lines = <<>>
    /\ args.pokemon_sprites = <<>>
    /\ ~args.profile

StatsDrawn == "stats" \in Range(steps)

\* the scenario up to the bar: nothing but a failing file write raises, the
\* canvas is 1600 by 800, and the stats panel has five rows, a legend of
\* two rows and a bar of two segments of the given heights
ScenarioGives(first, second) ==
    /\ error \in {"none", "OSError"}
    /\ canvas = <<1600, 800>>
    /\ pc = "done" => (error = "none" /\ files = 1)
    /\ pc \notin {"background", "containers", "team", "greeting", "profile",
                   "tail", "blurb", "stats"} => StatsDrawn
    /\ StatsDrawn =>
          /\ Len(panel.rows) = 5
          /\ Len(panel.legend) = 2
          /\ Len(panel.bar.segments) = 2
          /\ panel.bar.segments[1].end - panel.bar.segments[1].start = first
          /\ panel.bar.segments[2].end - panel.bar.segments[2].start = second

\* C20 as stated: the scenario raises no exception and gives a 1600 by 800
\* canvas, five stats rows, a two-row legend and a bar of exactly two
\* segments, of heights 98 and 66.
C20_Scenario98And66 == Scenario => ScenarioGives(98, 66)

\* C20 amended: ... and a bar of exactly two segments that split the 328
\* pixels of the bar (164 scaled by 2) into heights 196 and 131.
C20_Scenario196And131 ==
    Scenario =>
        /\ ScenarioGives(196, 131)
        /\ StatsDrawn => _s(164, scale) = 328

\* the scenario rendered to the end, its file written
C20_Witness ==
    /\ Scenario
    /\ pc = "done"
    /\ files = 1
    /\ panel.bar.segments[1].end = 196
    /\ panel.bar.segments[2].end = 327
    /\ Len(panel.legend) = 2

---------------------------------------------------------------------------
(* Properties: the team header *)

TeamCall == call.op = "team"

\* a sprite list of at most 6 slots, given as it is, with a None entry
SomeNone ==
    /\ TeamCall
    /\ ~call.fetched
    /\ Len(call.sprites) <= 6
    /\ \E k \in DOMAIN call.sprites : call.sprites[k].none

\* the padded header box at the renderer's scale
BoxLeft == _s(236, scale) + _s(24, scale)
BoxRight == _s(236, scale) + _s(555, scale) - _s(24, scale)
BoxTop == _s(24, scale)
BoxBottom == _s(24, scale) + _s(84, scale)

SideOf(paste) == paste.image.size[1]

\* every pasted bitmap is a square of one size lying inside the box
AllInside ==
    \A i \in DOMAIN call.drawn :
        /\ call.drawn[i].image.size = call.drawn[1].image.size
        /\ SideOf(call.drawn[i]) = call.drawn[i].image.size[2]
        /\ BoxLeft <= call.drawn[i].at[1]
        /\ call.drawn[i].at[1] + SideOf(call.drawn[i]) <= BoxRight
        /\ BoxTop <= call.drawn[i].at[2]
        /\ call.drawn[i].at[2] + SideOf(call.drawn[i]) <= BoxBottom

\* the pasted bitmaps stand side by side at one pitch, in one line
OnePitch ==
    \A i \in DOMAIN call.drawn :
        /\ call.drawn[i].at[2] = call.drawn[1].at[2]
        /\ i > 2 => call.drawn[i].at[1] - call.drawn[i - 1].at[1]
                       = call.drawn[2].at[1] - call.drawn[1].at[1]
        /\ i > 1 => call.drawn[i].at[1] - call.drawn[i - 1].at[1]
                       >= SideOf(call.drawn[i])

\* the free width left of the row equals the free width right of it, the
\* odd pixel going to the right
Centred ==
    call.drawn # <<>> =>
        LET last == call.drawn[Len(call.drawn)]
            left == call.drawn[1].at[1] - BoxLeft
            right == BoxRight - (last.at[1] + SideOf(last))
        IN  right - left \in {0, 1}

---------------------------------------------------------------------------
(* Properties: what a render leaves alone *)

Rendering == rstate = "ready" /\ pc \notin {"idle", "done", "raised"}

\* no step taken on a built renderer changes its scale or its scaled
\* geometry, and no step of a render changes the arguments of the call
RenderFrame ==
    /\ rstate = "ready" =>
          scaleArg' = scaleArg /\ scale' = scale /\ dims' = dims
    /\ Rendering => args' = args

\* what a finished render has done is fixed by its arguments and by the
\* renderer as constructed, whether it is the first render or a later one
SameOutcome ==
    rstate = "ready" /\ pc = "done" =>
        /\ steps = ExpectedSteps(args.profile)
        /\ canvas = <<_s(BASE_CARD_WIDTH, scale), _s(BASE_CARD_HEIGHT, scale)>>
        /\ dims = ScaledDims(CoerceScale(scaleArg))
        /\ panel = _draw_stats_section(args.stats, CoerceScale(scaleArg))

---------------------------------------------------------------------------
(* Properties: balanced wrap *)

NoWordTooWide(words) ==
    /\ words # <<>>
    /\ \A k \in DOMAIN words : TextWidth(words[k], call.font) <= call.max_width

\* the width of the line made of words a+1 .. b, joined by single spaces
WidthOf(words, a, b) == TextWidth(Join(SubSeq(words, a + 1, b)), call.font)

Slack(words, a, b) ==
    (call.max_width - WidthOf(words, a, b)) * (call.max_width - WidthOf(words, a, b))

\* a way to cut the words after word a into consecutive lines is the set of
\* its cuts; with a and the number of words they bound the lines
Cuttings(words, a) == SUBSET ((a + 1)..(Len(words) - 1))

NextBound(bounds, k) ==
    CHOOSE b \in bounds : b > k /\ \A c \in bounds : c > k => c >= b

AllFit(words, bounds) ==
    \A k \in bounds \ {Len(words)} :
        WidthOf(words, k, NextBound(bounds, k)) <= call.max_width

CostOf(words, bounds) ==
    SumSeq([k \in 1..Len(words) |->
               IF (k - 1) \in bounds \ {Len(words)}
               THEN Slack(words, k - 1, NextBound(bounds, k - 1)) ELSE 0])

\* the least cost of the words after word a, over all ways to cut them
\* into lines that fit
LeastCost(words, a) ==
    IF a = Len(words) THEN 0
    ELSE LET fitting == {cuts \cup {a, Len(words)} : cuts \in Cuttings(words, a)}
             costs == {CostOf(words, bounds) :
                          bounds \in {b \in fitting : AllFit(words, b)}}
         IN  CHOOSE m \in costs : \A o \in costs : m <= o

\* the lines returned are the words of the text, in order, cut into lines
IsPartition(words) ==
    /\ WordsOfLines(call.lines) = words
    /\ \A k \in DOMAIN call.lines :
          call.lines[k] # <<>> /\ call.lines[k] = Join(WordList(call.lines[k]))

ReturnedCost ==
    SumSeq([k \in DOMAIN call.lines |->
               (call.max_width - TextWidth(call.lines[k], call.font))
               * (call.max_width - TextWidth(call.lines[k], call.font))])

LeastRaggedness(words) ==
    /\ NoWordTooWide(words) =>
          /\ IsPartition(words)
          /\ \A k \in DOMAIN call.lines :
                TextWidth(call.lines[k], call.font) <= call.max_width
          /\ ReturnedCost = LeastCost(words, 0)
    /\ (\E k \in DOMAIN words : TextWidth(words[k], call.font) > call.max_width) =>
          call.lines = _wrap_text_to_width(call.text, call.font, call.max_width)

\* C23: when no word is wider than max width, balanced wrap returns the
\* words cut into consecutive lines, each of width <= max width, whose sum
\* of squared free widths (the last line included) is the least over all
\* such cuttings; when a word is wider than max width it returns the
\* greedy-wrap result.
C23_LeastRaggedness == BalancedCall => LeastRaggedness(WordList(call.text))

\* four words in a box of five: greedy wrap would fill the first line with
\* three of them, the balanced lines hold two each
C23_Witness ==
    /\ BalancedCall
    /\ NoWordTooWide(WordList(call.text))
    /\ Len(WordList(call.text)) = 4
    /\ Len(call.lines) = 2
    /\ Len(WordList(call.lines[1])) = 2
    /\ Len(WordList(_wrap_text_to_width(call.text, call.font, call.max_width)[1])) = 3

\* the cuts after word a that reach the least cost of the words after a
BestCuts(words, a) ==
    {j \in (a + 1)..Len(words) :
        /\ WidthOf(words, a, j) <= call.max_width
        /\ Slack(words, a, j) + LeastCost(words, j) = LeastCost(words, a)}

\* line k of the lines returned ends at the first of the best cuts after
\* its start
ShortestBestLine(words, k) ==
    LET a == Len(WordsOfLines(SubSeq(call.lines, 1, k - 1)))
        j == a + Len(WordList(call.lines[k]))
        best == BestCuts(words, a)
    IN  j \in best /\ \A o \in best : j <= o

\* C24: when several cuttings reach the least cost, every line returned is
\* the shortest one among the lines from its start that reach the least
\* cost of the words from there on.
C24_ShortestBestLine ==
    BalancedCall =>
        LET words == WordList(call.text)
        IN  NoWordTooWide(words) =>
                \A k \in DOMAIN call.lines : ShortestBestLine(words, k)

\* three words of which two fill the box: "a" + "a a" and "a a" + "a" cost
\* the same, and the first line returned is the single word
C24_Witness ==
    /\ BalancedCall
    /\ NoWordTooWide(WordList(call.text))
    /\ Cardinality(BestCuts(WordList(call.text), 0)) >= 2
    /\ Len(call.lines) = 2
    /\ Len(WordList(call.lines[1])) = 1
    /\ Len(WordList(call.lines[2])) = 2


---------------------------------------------------------------------------
(* Properties: the rows of the language bar *)

RowsCall == call.op = "rows" /\ call.bar.segments # <<>>

\* row r (from 0) lies in segment k of the bar of the call
RowIn(r, k) ==
    /\ k \in DOMAIN call.bar.segments
    /\ call.bar.segments[k].start <= r
    /\ r < call.bar.segments[k].end

\* the transition band: 8 scaled pixels on each side of a boundary
Band == _s(8, scale)

\* row r of segment k is within the band of the boundary with the previous
\* segment, or with the next one
NearPrev(r, k) == k > 1 /\ r - call.bar.segments[k].start < Band
NearNext(r, k) ==
    k < Len(call.bar.segments) /\ call.bar.segments[k].end - r <= Band

\* the color whose channels are own * (1 - weight) + other * weight, cut to
\* whole numbers, for the weight (Band - dist) / Band of the other color
Mix(own, other, dist) ==
    [c \in 1..4 |-> (own[c] * dist + other[c] * (Band - dist)) \div Band]

TowardPrev(r, k) ==
    Mix(call.bar.segments[k].color, call.bar.segments[k - 1].color,
        r - call.bar.segments[k].start)

TowardNext(r, k) ==
    Mix(call.bar.segments[k].color, call.bar.segments[k + 1].color,
        call.bar.segments[k].end - r)

ColorOfRow(r) == call.rows[r + 1].color

C26_PrevBlendFirst ==
    (RowsCall /\ call.use_gradient) =>
        \A r \in 0..(call.h - 1), k \in DOMAIN call.bar.segments :
            RowIn(r, k) =>
                /\ r < Len(call.rows)
                /\ (NearPrev(r, k) /\ NearNext(r, k)) =>
                      /\ call.rows[r + 1].blend = "from_prev"
                      /\ ColorOfRow(r) = TowardPrev(r, k)
                /\ call.rows[r + 1].blend = "to_next" =>
                      /\ ~NearPrev(r, k)
                      /\ ColorOfRow(r) = TowardNext(r, k)

\* a middle segment with a row in both bands, which the blends with the
\* previous and with the next color would color differently
C26_Witness ==
    /\ RowsCall
    /\ call.use_gradient
    /\ Len(call.bar.segments) = 3
    /\ \E r \in 0..(call.h - 1) :
          /\ RowIn(r, 2)
          /\ NearPrev(r, 2)
          /\ NearNext(r, 2)
          /\ TowardPrev(r, 2) # TowardNext(r, 2)
          /\ ColorOfRow(r) = TowardPrev(r, 2)

---------------------------------------------------------------------------
(* Properties: the segments of the bar *)

\* C27: in both sizing modes the segments tile a prefix of the bar: the
\* first starts at row 0, each starts where the one before it ends, none is
\* empty or overlaps another, they follow the order of the visible
\* languages, and their heights sum to at most the bar's height (in
\* proportional mode possibly less, leaving rows to no segment).
C27_SegmentsTilePrefix ==
    BarCall =>
        LET segments == call.bar.segments
        IN  /\ segments # <<>> => segments[1].start = 0
            /\ \A k \in DOMAIN segments :
                  /\ segments[k].start < segments[k].end
                  /\ k > 1 => segments[k].start = segments[k - 1].end
                  /\ k > 1 => segments[k - 1].lang < segments[k].lang
                  /\ segments[k].entry = CallVisible[segments[k].lang + 1]
            /\ \A k, m \in DOMAIN segments :
                  k < m => segments[k].end <= segments[m].start
            /\ SumSeq([k \in DOMAIN segments |->
                          segments[k].end - segments[k].start]) <= call.h
            /\ segments # <<>> => segments[Len(segments)].end <= call.h

\* a proportional bar of three segments, after a language without one, that
\* leaves rows at the bottom to no segment
C27_Witness ==
    /\ BarCall
    /\ call.scale_bars
    /\ Len(call.bar.segments) = 3
    /\ call.bar.segments[1].lang > 0
    /\ call.bar.segments[3].end < call.h

\* C28: in gradient mode, at every scale (also one whose band is 0 pixels)
\* and for every bar with a segment, each row 0 .. h-1 gets one color, no
\* division by zero is raised, every blend factor lies within [0, 1], and a
\* row below the last segment gets the last segment's solid color.
C28_EveryRowColored ==
    (RowsCall /\ call.use_gradient) =>
        /\ error = "none"
        /\ Len(call.rows) = call.h
        /\ \A r \in 0..(call.h - 1) :
              /\ r < Len(call.rows)
              /\ call.rows[r + 1].error = "none"
              /\ call.rows[r + 1].factor[2] > 0
              /\ 0 <= call.rows[r + 1].factor[1]
              /\ call.rows[r + 1].factor[1] <= call.rows[r + 1].factor[2]
              /\ r >= call.bar.segments[Len(call.bar.segments)].end =>
                    ColorOfRow(r) = call.bar.segments[Len(call.bar.segments)].color

\* a band of 0 pixels: two segments meet and a row is left below them
C28_Witness ==
    /\ RowsCall
    /\ call.use_gradient
    /\ Band = 0
    /\ Len(call.bar.segments) = 2
    /\ call.bar.segments[2].end < call.h
    /\ Len(call.rows) = call.h
    /\ ColorOfRow(call.h - 1) = call.bar.segments[2].color
    /\ ColorOfRow(0) # ColorOfRow(call.h - 1)

---------------------------------------------------------------------------
(* Properties: the legend beside the bar *)

\* the stats section has drawn the bar and the legend of its languages
BarAndLegend == panel.bar.called /\ panel.error = "none"

\* C29: the legend has one row for every visible language, in order,
\* whether or not the language has a segment, and the dot of every language
\* that has a segment has the solid color of that segment - also for names
\* that take a fallback color and when other languages have no segment.
C29_DotMatchesSegment ==
    BarAndLegend =>
        /\ Len(panel.legend) = Min(5, Len(panel.languages))
        /\ \A i \in DOMAIN panel.legend : panel.legend[i].entry = panel.languages[i]
        /\ \A k \in DOMAIN panel.bar.segments :
              LET own == panel.bar.segments[k].lang + 1
              IN  /\ own \in DOMAIN panel.legend
                  /\ panel.legend[own].entry = panel.bar.segments[k].entry
                  /\ panel.legend[own].color = panel.bar.segments[k].color

\* a language without a segment comes before a language whose name takes a
\* fallback color and which has a segment
C29_Witness ==
    /\ BarAndLegend
    /\ Len(panel.bar.segments) < Len(panel.legend)
    /\ \E k \in DOMAIN panel.bar.segments :
          /\ panel.bar.segments[k].lang >= k
          /\ panel.bar.segments[k].entry[1] = Blank
          /\ panel.bar.segments[k].color
                = hex_to_rgba(FALLBACK_LANGUAGE_COLORS[panel.bar.segments[k].lang + 1])

---------------------------------------------------------------------------
(* Properties: the sprite cache *)

SpriteCall == call.op = "sprite"

\* the cache holds entries only for the requests fetched with success,
\* each under the key of its request
OnlyFetchedCached ==
    \A key \in DOMAIN fetcher.sprite_cache :
        \E pair \in fetcher.fetched :
            /\ key = cache_key(pair[1], pair[2])
            /\ fetcher.sprite_cache[key] = SpriteOf(pair[1], pair[2])

\* a call that returned None sent a request and left nothing in the cache
\* under its key, so the next such call goes to the network again
FailureNotCached ==
    (SpriteCall /\ call.result.none) =>
        /\ call.gets >= 1
        /\ cache_key(call.pokemon_name, call.shiny) \notin DOMAIN fetcher.sprite_cache

\* a call for a request fetched before is served from the cache, without a
\* request, with the bitmap of that request
HitIsOwnSprite ==
    (SpriteCall /\ <<call.pokemon_name, call.shiny>> \in fetcher.fetched) =>
        /\ call.result = Some(SpriteOf(call.pokemon_name, call.shiny))
        /\ call.hit <=> call.gets = 0

\* no call is served from the entry of a request with another normalized
\* name or another shiny flag
NoSharedEntry ==
    (SpriteCall /\ call.hit) =>
        /\ <<call.pokemon_name, call.shiny>> \in fetcher.fetched
        /\ call.result = Some(SpriteOf(call.pokemon_name, call.shiny))

\* C30: after any sequence of get_pokemon_sprite calls on one fetcher the
\* cache holds an entry only for requests whose fetch succeeded, a request
\* already cached is answered with its cached bitmap without a network
\* request, a failed fetch returns None and caches nothing, and requests that
\* differ in normalized name or shiny flag never share a cache entry.
C30_CachePerRequest ==
    fetcher.made =>
        /\ OnlyFetchedCached
        /\ FailureNotCached
        /\ HitIsOwnSprite
        /\ NoSharedEntry

====
